---------------------------- MODULE Spec2Model ----------------------------
(***************************************************************************)
(* Verification model of the grammar-inference engine of security-dfa-gen: *)
(* PTA construction (src/src/automata/pta.cpp), DFA construction,          *)
(* completion, classification, minimization and CNF export                 *)
(* (src/src/automata/dfa.cpp), the CNF grammar loader and GrammarDFA       *)
(* (src/src/core/simulator_core.cpp), the breadth-first PDA simulator     *)
(* (src/src/api/main.cpp) and the evaluation (src/src/evaluator.cpp).      *)
(*                                                                         *)
(* Conventions.  A std::string is a sequence of one-character strings, so  *)
(* that quoting, trimming and tokenising act on characters.  A std::vector *)
(* is a sequence; the C++ index i is position i+1 (operator At).  A        *)
(* std::unordered_map is a function whose DOMAIN is its key set.           *)
(***************************************************************************)
EXTENDS Integers, Sequences, FiniteSets, TLC

VARIABLES
    pc,          \* position of the training/export pipeline
    samples,     \* the std::vector<LabeledSequence> last given to PTA::build
    pta,         \* the PTA object (nodes_, start_state_)
    dfa,         \* DFA::from_pta(pta)
    min,         \* dfa.minimize()
    min2,        \* min.minimize()
    exported,    \* the DFA object to_chomsky was called on
    grammar,     \* text written by to_chomsky: a sequence of lines
    gdfa,        \* GrammarDFA filled by load_cnf_grammar, or by direct calls
                 \* of its member functions
    pda,         \* simulate_pda: the PDA argument
    input,       \* simulate_pda: the input argument
    queue,       \* simulate_pda: std::deque<SimulationState>
    steps_count, \* simulate_pda: loop counter
    best_input_consumed,
    best_trace,
    dequeued,    \* number of configurations taken from the queue so far
    visited,     \* history: the configurations taken from the queue, in order
    result,      \* simulate_pda: the PDATraceResult returned
    spc,         \* simulate_pda: "loop" while running, "done" once returned
    tests,       \* evaluate: the test_sequences argument
    metrics,     \* evaluate: the Metrics returned
    terminal,    \* quote lambda of to_chomsky: the argument s
    emitted,     \* quote lambda of to_chomsky: the string returned
    qpc,         \* quote lambda: "call" before it ran, "done" after, "read"
                 \* once load_cnf_grammar has read the helper line back
    readTerms,   \* load_cnf_grammar: T_to_term filled from the helper line
    vseq,        \* validate_pda_sequence: the seq argument
    presult,     \* validate_pda_sequence: the PDAResult returned
    vpc,         \* validate_pda_sequence: "call" before it ran, "done" after
    sgdfa        \* GrammarDFA filled by load_cnf_grammar of the standalone simulator

pipeVars == <<pc, samples, pta, dfa, min, min2, exported, grammar, gdfa>>
simVars == <<pda, input, queue, steps_count, best_input_consumed, best_trace,
             dequeued, visited, result, spc>>
evalVars == <<tests, metrics>>
quoteVars == <<terminal, emitted, qpc, readTerms>>
validateVars == <<vseq, presult, vpc>>
standaloneVars == <<sgdfa>>
vars == <<pc, samples, pta, dfa, min, min2, exported, grammar, gdfa,
          pda, input, queue, steps_count, best_input_consumed, best_trace,
          dequeued, visited, result, spc, tests, metrics,
          terminal, emitted, qpc, readTerms, vseq, presult, vpc, sgdfa>>

-----------------------------------------------------------------------------
(* Bounds of the model *)

\* longest sample list given to PTA::build
MaxSamples == 2
\* longest input given to simulate_pda
MaxInputLen == 2
\* the step cap of simulate_pda.  The code sets max_steps = 50000
\* (src/src/api/main.cpp:387); the model runs the same loop with a small cap
\* so that the cap is reached, and every formula refers to it by this name
max_steps == 4
\* longest symbol sequence of a training sample
MaxSeqLen == 3
\* longest sequence handed to classify / classify_with_reason
MaxWordLen == 4
\* longest test list given to evaluate
MaxTests == 2
\* longest sequence of a test sample
MaxTestLen == 1
\* longest terminal given to the quote lambda
MaxTermLen == 3
\* largest number of rule lines of a grammar file given to load_cnf_grammar
MaxRules == 3
\* longest token sequence given to validate_pda_sequence
MaxTokens == 4

-----------------------------------------------------------------------------
(* Generic helpers: vectors, strings, maps *)

At(v, i) == v[i + 1]

Last(v) == v[Len(v)]

Range(f) == {f[x] : x \in DOMAIN f}

EmptyMap == [x \in {} |-> 0]

\* m[k] = v on a std::unordered_map (insert or overwrite)
MapPut(m, k, v) == [x \in (DOMAIN m) \cup {k} |-> IF x = k THEN v ELSE m[x]]

\* byte order of the characters the model uses (ascending char value);
\* "ε" stands for its UTF-8 encoding, whose bytes are above every ASCII one
CharOrder ==
    << "\t", " ", "\"", "#", ",", "-",
       "0", "1", "2", "3", "4", "5", "6", "7", "8", "9", ":", ">",
       "A", "B", "C", "D", "F", "N", "P", "S", "T", "\\",
       "a", "b", "c", "d", "e", "f", "g", "h", "i", "k", "l", "m", "n", "o",
       "p", "r", "s", "t", "u", "w", "x", "y", "z", "{", "|", "}", "ε" >>

CharRank(c) == CHOOSE i \in 1..Len(CharOrder) : CharOrder[i] = c

\* std::string operator< : lexicographic on chars, a proper prefix is smaller
RECURSIVE StrLess(_, _)
StrLess(s, t) ==
    IF t = <<>> THEN FALSE
    ELSE IF s = <<>> THEN TRUE
    ELSE IF Head(s) = Head(t) THEN StrLess(Tail(s), Tail(t))
    ELSE CharRank(Head(s)) < CharRank(Head(t))

\* the elements of a set of strings in ascending order (std::sort, std::set)
RECURSIVE SortStrings(_)
SortStrings(S) ==
    IF S = {} THEN <<>>
    ELSE LET m == CHOOSE x \in S : \A y \in S \ {x} : StrLess(x, y)
         IN <<m>> \o SortStrings(S \ {m})

\* all sequences over S of length at most n
RECURSIVE SeqsUpTo(_, _)
SeqsUpTo(S, n) ==
    IF n = 0 THEN {<<>>}
    ELSE LET shorter == SeqsUpTo(S, n - 1)
         IN shorter \cup {Append(w, x) : w \in shorter, x \in S}

-----------------------------------------------------------------------------
(* Inputs: symbols and labelled samples *)

\* symbols that occur in training sequences
TrainSymbols == {<<"a">>, <<"b">>}

\* a symbol never seen in training
UnseenSymbol == <<"z">>

\* symbol sequences of the training samples
TrainSeqs == SeqsUpTo(TrainSymbols, MaxSeqLen)

\* LabeledSequence: only symbols and label reach the automata
LabeledSequence == [symbols : TrainSeqs, label : BOOLEAN]

SampleLists == SeqsUpTo(LabeledSequence, MaxSamples)

\* sequences handed to the classifiers
Words == SeqsUpTo(TrainSymbols \cup {UnseenSymbol}, MaxWordLen)

-----------------------------------------------------------------------------
(* PTA  (src/src/automata/pta.cpp) *)

\* a fresh PTA::Node with the given id
Node(i) ==
    [id |-> i, transitions |-> EmptyMap, positive_count |-> 0, negative_count |-> 0]

\* PTA::ensure_root on an empty node list, as called by the constructor and build
ensure_root == [nodes_ |-> <<Node(0)>>, start_state_ |-> 0]

\* PTA::add_node: append a node whose id is the current size
add_node(nodes) == Append(nodes, Node(Len(nodes)))

\* a faulty variant of Walk that replaces the node's transition map by the
\* new edge instead of adding to it; C8_OrderIndependent rules it out
RECURSIVE WalkOverwrite(_, _, _)
WalkOverwrite(nodes, current, symbols) ==
    IF symbols = <<>> THEN [nodes |-> nodes, current |-> current]
    ELSE LET symbol == Head(symbols)
             tr == At(nodes, current).transitions
         IN IF symbol \notin DOMAIN tr
            THEN LET child_id == Len(nodes)
                     grown == add_node(nodes)
                     wired == [grown EXCEPT ![current + 1].transitions =
                                  MapPut(EmptyMap, symbol, child_id)]
                 IN WalkOverwrite(wired, child_id, Tail(symbols))
            ELSE WalkOverwrite(nodes, tr[symbol], Tail(symbols))

\* a faulty variant of Walk that creates a child for every symbol, also when
\* the current node has a transition on it; C19_PrefixTree rules it out
RECURSIVE WalkAlwaysGrow(_, _, _)
WalkAlwaysGrow(nodes, current, symbols) ==
    IF symbols = <<>> THEN [nodes |-> nodes, current |-> current]
    ELSE LET symbol == Head(symbols)
             child_id == Len(nodes)
             grown == add_node(nodes)
             wired == [grown EXCEPT ![current + 1].transitions =
                          MapPut(@, symbol, child_id)]
         IN WalkAlwaysGrow(wired, child_id, Tail(symbols))

\* the inner loop of PTA::build: walk or grow the trie along the symbols
RECURSIVE Walk(_, _, _)
Walk(nodes, current, symbols) ==
    IF symbols = <<>> THEN [nodes |-> nodes, current |-> current]
    ELSE LET symbol == Head(symbols)
             tr == At(nodes, current).transitions
         IN IF symbol \notin DOMAIN tr
            THEN LET child_id == Len(nodes)
                     grown == add_node(nodes)
                     wired == [grown EXCEPT ![current + 1].transitions =
                                  MapPut(@, symbol, child_id)]
                 IN Walk(wired, child_id, Tail(symbols))
            ELSE Walk(nodes, tr[symbol], Tail(symbols))

\* one iteration of the outer loop of PTA::build
InsertSample(nodes, start, sample) ==
    LET w == Walk(nodes, start, sample.symbols)
    IN IF sample.label
       THEN [w.nodes EXCEPT ![w.current + 1].positive_count = @ + 1]
       ELSE [w.nodes EXCEPT ![w.current + 1].negative_count = @ + 1]

RECURSIVE BuildLoop(_, _, _)
BuildLoop(nodes, start, smpls) ==
    IF smpls = <<>> THEN nodes
    ELSE BuildLoop(InsertSample(nodes, start, Head(smpls)), start, Tail(smpls))

\* std::vector::clear
clear(nodes) == <<>>

\* PTA::ensure_root on the node list at hand: a root is pushed only onto an
\* empty list
ensure_root_on(nodes) ==
    [nodes_ |-> IF nodes = <<>> THEN <<Node(0)>> ELSE nodes, start_state_ |-> 0]

\* a faulty variant of build that does not clear the nodes of the PTA it is
\* called on; C20_Counts rules it out
buildKeeping(p, smpls) ==
    LET root == ensure_root_on(p.nodes_)
    IN [nodes_ |-> BuildLoop(root.nodes_, root.start_state_, smpls),
        start_state_ |-> root.start_state_]

\* PTA::build(samples) called on the PTA p: clear, ensure_root, insert every
\* sample
build(p, smpls) ==
    LET root == ensure_root_on(clear(p.nodes_))
    IN [nodes_ |-> BuildLoop(root.nodes_, root.start_state_, smpls),
        start_state_ |-> root.start_state_]

\* PTA::build(samples) called on a freshly constructed PTA
PTAbuild(smpls) == build(ensure_root, smpls)

-----------------------------------------------------------------------------
(* DFA  (src/src/automata/dfa.cpp) *)

\* std::numeric_limits<std::size_t>::max(), the value of sink_state_ when
\* there is no sink; any value above every state count behaves the same
SIZE_MAX == 2147483647

\* a value-initialised DFA::State
State0 ==
    [transitions |-> EmptyMap, positive_count |-> 0, negative_count |-> 0,
     accepting |-> FALSE]

\* DFA::DFA()
DFA0 ==
    [states_ |-> <<>>, start_state_ |-> 0, alphabet_ |-> <<>>,
     sink_state_ |-> SIZE_MAX]

\* the two throw statements of DFA::from_pta
from_pta_throws(p) ==
    \E k \in 1..Len(p.nodes_) :
        \/ p.nodes_[k].id >= Len(p.nodes_)
        \/ \E t \in Range(p.nodes_[k].transitions) : t >= Len(p.nodes_)

\* a faulty variant of CopyNode that accepts on a tie of the counts;
\* C3_MajorityVote rules it out
CopyNodeTies(node) ==
    [transitions |-> node.transitions,
     positive_count |-> node.positive_count,
     negative_count |-> node.negative_count,
     accepting |-> node.positive_count >= node.negative_count]

\* the copy of one PTA node made by the loop of DFA::from_pta
CopyNode(node) ==
    [transitions |-> node.transitions,
     positive_count |-> node.positive_count,
     negative_count |-> node.negative_count,
     accepting |-> node.positive_count > node.negative_count]

\* the loop of DFA::from_pta over pta_nodes: states_[node.id] is overwritten
RECURSIVE CopyNodes(_, _)
CopyNodes(states, nodes) ==
    IF nodes = <<>> THEN states
    ELSE CopyNodes([states EXCEPT ![Head(nodes).id + 1] = CopyNode(Head(nodes))],
                   Tail(nodes))

\* does some state lack a transition on some alphabet symbol
needs_sink(states, alphabet) ==
    \E k \in 1..Len(states) : \E j \in 1..Len(alphabet) :
        alphabet[j] \notin DOMAIN states[k].transitions

\* a faulty variant of SinkState whose transitions lead to state 0;
\* C7_SinkInvariant rules it out
SinkStateToStart(sink, alphabet) ==
    [transitions |-> [s \in Range(alphabet) |-> 0],
     positive_count |-> 0, negative_count |-> 1, accepting |-> FALSE]

\* the sink state appended by ensure_complete_transitions
SinkState(sink, alphabet) ==
    [transitions |-> [s \in Range(alphabet) |-> sink],
     positive_count |-> 0, negative_count |-> 1, accepting |-> FALSE]

\* a faulty variant of FillMissing that fills nothing; C6_Complete rules it out
FillNothing(st, sink, alphabet) == st

\* the filling loop of ensure_complete_transitions
FillMissing(st, sink, alphabet) ==
    [st EXCEPT !.transitions =
        [s \in (DOMAIN st.transitions) \cup Range(alphabet) |->
            IF s \in DOMAIN st.transitions THEN st.transitions[s] ELSE sink]]

\* a faulty variant of ensure_complete_transitions that appends a sink even
\* when the alphabet is empty; C38_SinkIffAlphabet rules it out
EnsureCompleteAlwaysSink(d) ==
    LET sink == Len(d.states_)
        withSink == Append(d.states_, SinkState(sink, d.alphabet_))
    IN [d EXCEPT !.sink_state_ = sink,
                 !.states_ = [k \in 1..Len(withSink) |->
                                 FillMissing(withSink[k], sink, d.alphabet_)]]

\* DFA::ensure_complete_transitions
ensure_complete_transitions(d) ==
    IF d.alphabet_ = <<>> THEN [d EXCEPT !.sink_state_ = SIZE_MAX]
    ELSE IF needs_sink(d.states_, d.alphabet_)
    THEN LET sink == Len(d.states_)
             withSink == Append(d.states_, SinkState(sink, d.alphabet_))
         IN [d EXCEPT !.sink_state_ = sink,
                      !.states_ = [k \in 1..Len(withSink) |->
                                      FillMissing(withSink[k], sink, d.alphabet_)]]
    ELSE [d EXCEPT !.sink_state_ = SIZE_MAX]

\* a faulty variant of CollectAlphabet that collects the labels of the first
\* node only; C30_FromPta rules it out
CollectAlphabetOfRoot(nodes) ==
    SortStrings(DOMAIN nodes[1].transitions)

\* the alphabet collected by DFA::from_pta: every transition label, sorted
CollectAlphabet(nodes) ==
    SortStrings(UNION {DOMAIN nodes[k].transitions : k \in 1..Len(nodes)})

\* DFA::from_pta for a PTA on which it does not throw
from_pta(p) ==
    LET resized == [k \in 1..Len(p.nodes_) |-> State0]
    IN ensure_complete_transitions(
           [states_ |-> CopyNodes(resized, p.nodes_),
            start_state_ |-> p.start_state_,
            alphabet_ |-> CollectAlphabet(p.nodes_),
            sink_state_ |-> SIZE_MAX])

\* a faulty variant of ClassifyFrom that skips a symbol without a transition
\* and stays in the current state; C15_ClassifyTotal rules it out
RECURSIVE ClassifyFromSkipping(_, _, _)
ClassifyFromSkipping(d, current, sequence) ==
    IF sequence = <<>> THEN At(d.states_, current).accepting
    ELSE LET tr == At(d.states_, current).transitions
         IN IF Head(sequence) \notin DOMAIN tr
            THEN ClassifyFromSkipping(d, current, Tail(sequence))
            ELSE ClassifyFromSkipping(d, tr[Head(sequence)], Tail(sequence))

\* the loop of DFA::classify from state current; FALSE when it returns early
RECURSIVE ClassifyFrom(_, _, _)
ClassifyFrom(d, current, sequence) ==
    IF sequence = <<>> THEN At(d.states_, current).accepting
    ELSE LET tr == At(d.states_, current).transitions
         IN IF Head(sequence) \notin DOMAIN tr
            THEN IF d.sink_state_ < Len(d.states_)
                 THEN ClassifyFrom(d, d.sink_state_, Tail(sequence))
                 ELSE FALSE
            ELSE ClassifyFrom(d, tr[Head(sequence)], Tail(sequence))

\* DFA::classify
classify(d, sequence) ==
    IF d.states_ = <<>> THEN FALSE
    ELSE IF d.start_state_ >= Len(d.states_) THEN FALSE
    ELSE ClassifyFrom(d, d.start_state_, sequence)

\* the state indices 0..n-1 whose accepting flag is acc, ascending
RECURSIVE StatesWith(_, _, _)
StatesWith(states, acc, i) ==
    IF i >= Len(states) THEN <<>>
    ELSE (IF At(states, i).accepting = acc THEN <<i>> ELSE <<>>)
         \o StatesWith(states, acc, i + 1)

\* a faulty variant of InitialPartitions that starts from one block of all
\* states; C37_BlockConsistency rules it out
InitialPartitionsOneBlock(d) ==
    << [k \in 1..Len(d.states_) |-> k - 1] >>

\* the initial partition of DFA::minimize: accepting block, then rejecting
\* block, an empty block dropped
InitialPartitions(d) ==
    LET accepting == StatesWith(d.states_, TRUE, 0)
        rejecting == StatesWith(d.states_, FALSE, 0)
        parts == (IF accepting /= <<>> THEN <<accepting>> ELSE <<>>)
                 \o (IF rejecting /= <<>> THEN <<rejecting>> ELSE <<>>)
    IN IF parts = <<>> THEN << <<0>> >> ELSE parts

\* state_partition as filled while the initial blocks are pushed
\* (-1 for a state in no block)
PartitionIndex(parts, n) ==
    [k \in 1..n |->
        IF \E b \in 1..Len(parts) : (k - 1) \in Range(parts[b])
        THEN (CHOOSE b \in 1..Len(parts) : (k - 1) \in Range(parts[b])) - 1
        ELSE -1]

\* the pairs pushed on the work queue for the blocks idxs, symbol by symbol
RECURSIVE WorkFor(_, _)
WorkFor(idxs, alphabet) ==
    IF alphabet = <<>> THEN <<>>
    ELSE [k \in 1..Len(idxs) |-> <<idxs[k], Head(alphabet)>>]
         \o WorkFor(idxs, Tail(alphabet))

\* the initial work queue: for each block, every alphabet symbol
RECURSIVE InitialWork(_, _, _)
InitialWork(idx, nparts, alphabet) ==
    IF idx >= nparts THEN <<>>
    ELSE WorkFor(<<idx>>, alphabet) \o InitialWork(idx + 1, nparts, alphabet)

\* a faulty variant of Involved that compares the target state, not the
\* target's block, with part_idx; C4_Minimal rules it out
InvolvedByState(d, state_partition, part_idx, symbol) ==
    {s \in 0..(Len(d.states_) - 1) :
        /\ symbol \in DOMAIN At(d.states_, s).transitions
        /\ At(d.states_, s).transitions[symbol] = part_idx}

\* the states marked in involved_flag for the pair (part_idx, symbol)
Involved(d, state_partition, part_idx, symbol) ==
    {s \in 0..(Len(d.states_) - 1) :
        /\ symbol \in DOMAIN At(d.states_, s).transitions
        /\ At(state_partition, At(d.states_, s).transitions[symbol]) = part_idx}

\* a faulty variant of SplitBlocks that does not queue the two blocks of a
\* split again; C5_Idempotent rules it out
RECURSIVE SplitBlocksNoRequeue(_, _, _, _, _, _)
SplitBlocksNoRequeue(partitions, state_partition, work, idx, inv, alphabet) ==
    IF idx >= Len(partitions)
    THEN [partitions |-> partitions, state_partition |-> state_partition,
          work |-> work]
    ELSE LET block == At(partitions, idx)
             subset == SelectSeq(block, LAMBDA s : s \in inv)
             remainder == SelectSeq(block, LAMBDA s : s \notin inv)
         IN IF subset /= <<>> /\ remainder /= <<>>
            THEN LET new_index == Len(partitions)
                     split == Append([partitions EXCEPT ![idx + 1] = subset],
                                     remainder)
                     remapped ==
                         [k \in 1..Len(state_partition) |->
                             IF (k - 1) \in Range(subset) THEN idx
                             ELSE IF (k - 1) \in Range(remainder) THEN new_index
                             ELSE state_partition[k]]
                 IN SplitBlocksNoRequeue(split, remapped, work, idx + 1, inv,
                                         alphabet)
            ELSE SplitBlocksNoRequeue(partitions, state_partition, work,
                                      idx + 1, inv, alphabet)

\* the loop over the blocks for one work item: a block with both involved
\* and other states keeps the involved ones, the others become a new last
\* block, and both blocks are queued again for every symbol
RECURSIVE SplitBlocks(_, _, _, _, _, _)
SplitBlocks(partitions, state_partition, work, idx, inv, alphabet) ==
    IF idx >= Len(partitions)
    THEN [partitions |-> partitions, state_partition |-> state_partition,
          work |-> work]
    ELSE LET block == At(partitions, idx)
             subset == SelectSeq(block, LAMBDA s : s \in inv)
             remainder == SelectSeq(block, LAMBDA s : s \notin inv)
         IN IF subset /= <<>> /\ remainder /= <<>>
            THEN LET new_index == Len(partitions)
                     split == Append([partitions EXCEPT ![idx + 1] = subset],
                                     remainder)
                     remapped ==
                         [k \in 1..Len(state_partition) |->
                             IF (k - 1) \in Range(subset) THEN idx
                             ELSE IF (k - 1) \in Range(remainder) THEN new_index
                             ELSE state_partition[k]]
                 IN SplitBlocks(split, remapped,
                                work \o WorkFor(<<idx, new_index>>, alphabet),
                                idx + 1, inv, alphabet)
            ELSE SplitBlocks(partitions, state_partition, work, idx + 1, inv,
                             alphabet)

\* the main refinement loop of DFA::minimize
RECURSIVE Refine(_, _, _, _)
Refine(d, partitions, state_partition, work) ==
    IF work = <<>>
    THEN [partitions |-> partitions, state_partition |-> state_partition]
    ELSE LET part_idx == Head(work)[1]
             symbol == Head(work)[2]
             inv == Involved(d, state_partition, part_idx, symbol)
             r == SplitBlocks(partitions, state_partition, Tail(work), 0, inv,
                              d.alphabet_)
         IN Refine(d, r.partitions, r.state_partition, r.work)

\* the final partition reached by DFA::minimize on a DFA with states
FinalPartition(d) ==
    LET parts == InitialPartitions(d)
    IN Refine(d, parts, PartitionIndex(parts, Len(d.states_)),
              InitialWork(0, Len(parts), d.alphabet_))

\* a faulty variant of SumOver that takes the count of the block's first
\* member alone; C21_BlockStates rules it out
SumOverFirst(states, block, pos) ==
    IF block = <<>> THEN 0
    ELSE IF pos THEN At(states, Head(block)).positive_count
    ELSE At(states, Head(block)).negative_count

RECURSIVE SumOver(_, _, _)
SumOver(states, block, pos) ==
    IF block = <<>> THEN 0
    ELSE (IF pos THEN At(states, Head(block)).positive_count
                 ELSE At(states, Head(block)).negative_count)
         + SumOver(states, Tail(block), pos)

\* a faulty variant of BlockAccepting that accepts on a tie of the summed
\* counts; C2_MinimizePreservesLanguage rules it out
BlockAcceptingTies(positive_count, negative_count) ==
    positive_count >= negative_count

\* the accepting flag DFA::minimize gives a block
BlockAccepting(positive_count, negative_count) ==
    positive_count > negative_count

\* the state DFA::minimize makes of one block
BlockState(d, block, state_partition) ==
    LET pos == SumOver(d.states_, block, TRUE)
        neg == SumOver(d.states_, block, FALSE)
        rep == Head(block)
        tr == At(d.states_, rep).transitions
    IN [transitions |-> [s \in DOMAIN tr |-> At(state_partition, tr[s])],
        positive_count |-> pos,
        negative_count |-> neg,
        accepting |-> BlockAccepting(pos, neg)]

\* DFA::minimize
minimize(d) ==
    IF d.states_ = <<>> THEN d
    ELSE LET f == FinalPartition(d)
         IN [states_ |-> [b \in 1..Len(f.partitions) |->
                            BlockState(d, f.partitions[b], f.state_partition)],
             start_state_ |-> At(f.state_partition, d.start_state_),
             alphabet_ |-> d.alphabet_,
             sink_state_ |-> IF d.sink_state_ < Len(d.states_)
                             THEN At(f.state_partition, d.sink_state_)
                             ELSE SIZE_MAX]

-----------------------------------------------------------------------------
(* CNF export: DFA::to_chomsky  (src/src/automata/dfa.cpp) *)

Digits == <<"0", "1", "2", "3", "4", "5", "6", "7", "8", "9">>

\* std::to_string of a natural number
RECURSIVE to_string(_)
to_string(n) ==
    IF n < Len(Digits) THEN <<Digits[n + 1]>>
    ELSE to_string(n \div Len(Digits)) \o <<Digits[(n % Len(Digits)) + 1]>>

\* the concatenation of the strings of v, sep between neighbours
RECURSIVE Join(_, _)
Join(v, sep) ==
    IF v = <<>> THEN <<>>
    ELSE IF Len(v) = 1 THEN Head(v)
    ELSE Head(v) \o sep \o Join(Tail(v), sep)

\* the escaping loop of the quote lambda: a backslash before " and \
RECURSIVE Escape(_)
Escape(s) ==
    IF s = <<>> THEN <<>>
    ELSE (IF Head(s) \in {"\"", "\\"} THEN <<"\\", Head(s)>> ELSE <<Head(s)>>)
         \o Escape(Tail(s))

\* the quote lambda of to_chomsky
quote(s) ==
    IF s = <<>> THEN <<"\"", "\"">>
    ELSE IF \A k \in 1..Len(s) : s[k] \notin {" ", "\"", "\\"} THEN s
    ELSE <<"\"">> \o Escape(s) \o <<"\"">>

\* state_names of to_chomsky: S for the start state, A0, A1, ... for the
\* other states in ascending state order; a_idx counts the names given
RECURSIVE StateNames(_, _, _, _)
StateNames(i, n, start, a_idx) ==
    IF i >= n THEN <<>>
    ELSE IF i = start THEN << <<"S">> >> \o StateNames(i + 1, n, start, a_idx)
    ELSE << <<"A">> \o to_string(a_idx) >>
         \o StateNames(i + 1, n, start, a_idx + 1)

\* the name_for_state lambda
name_for_state(state_names, idx) ==
    IF idx < Len(state_names) THEN At(state_names, idx)
    ELSE <<"A">> \o to_string(idx)

\* position of a symbol in the alphabet (term_to_T holds "T" + that index)
AlphabetIndex(alphabet, symbol) ==
    (CHOOSE j \in 1..Len(alphabet) : alphabet[j] = symbol) - 1

\* a faulty variant of Opts that gives the start state the alternative ε
\* whether or not it is accepting; C13_EpsilonAlternative rules it out
OptsEpsilonAlways(d, state_names, i) ==
    LET st == At(d.states_, i)
        known == {s \in DOMAIN st.transitions : s \in Range(d.alphabet_)}
    IN {<<"T">> \o to_string(AlphabetIndex(d.alphabet_, s)) \o <<" ">>
            \o name_for_state(state_names, st.transitions[s]) : s \in known}
       \cup {quote(s) : s \in {x \in known :
                /\ st.transitions[x] < Len(d.states_)
                /\ At(d.states_, st.transitions[x]).accepting}}
       \cup (IF i = d.start_state_ THEN {<<"ε">>} ELSE {})

\* a faulty variant of Opts that adds the terminal alternative for every
\* transition, whether or not its target is accepting; C18_EveryTransition
\* rules it out
OptsTerminalAlways(d, state_names, i) ==
    LET st == At(d.states_, i)
        known == {s \in DOMAIN st.transitions : s \in Range(d.alphabet_)}
    IN {<<"T">> \o to_string(AlphabetIndex(d.alphabet_, s)) \o <<" ">>
            \o name_for_state(state_names, st.transitions[s]) : s \in known}
       \cup {quote(s) : s \in known}
       \cup (IF /\ d.start_state_ < Len(d.states_)
                /\ At(d.states_, d.start_state_).accepting
                /\ i = d.start_state_
             THEN {<<"ε">>} ELSE {})

\* a faulty variant of Opts that gives every accepting state the
\* alternative ε; C28_CnfShape rules it out
OptsEpsilonEveryAccepting(d, state_names, i) ==
    LET st == At(d.states_, i)
        known == {s \in DOMAIN st.transitions : s \in Range(d.alphabet_)}
    IN {<<"T">> \o to_string(AlphabetIndex(d.alphabet_, s)) \o <<" ">>
            \o name_for_state(state_names, st.transitions[s]) : s \in known}
       \cup {quote(s) : s \in {x \in known :
                /\ st.transitions[x] < Len(d.states_)
                /\ At(d.states_, st.transitions[x]).accepting}}
       \cup (IF st.accepting THEN {<<"ε">>} ELSE {})

\* the set opts of alternatives to_chomsky collects for state i
Opts(d, state_names, i) ==
    LET st == At(d.states_, i)
        known == {s \in DOMAIN st.transitions : s \in Range(d.alphabet_)}
    IN {<<"T">> \o to_string(AlphabetIndex(d.alphabet_, s)) \o <<" ">>
            \o name_for_state(state_names, st.transitions[s]) : s \in known}
       \cup {quote(s) : s \in {x \in known :
                /\ st.transitions[x] < Len(d.states_)
                /\ At(d.states_, st.transitions[x]).accepting}}
       \cup (IF /\ d.start_state_ < Len(d.states_)
                /\ At(d.states_, d.start_state_).accepting
                /\ i = d.start_state_
             THEN {<<"ε">>} ELSE {})

CommentLine ==
    <<"#", " ", "C", "h", "o", "m", "s", "k", "y", " ", "N", "o", "r", "m",
      "a", "l", " ", "F", "o", "r", "m", " ", "(", "C", "N", "F", ")", " ",
      "g", "r", "a", "m", "m", "a", "r", " ", "g", "e", "n", "e", "r", "a",
      "t", "e", "d", " ", "f", "r", "o", "m", " ", "D", "F", "A">>

TerminalsHead ==
    <<"T", "e", "r", "m", "i", "n", "a", "l", "s", ":", " ", "{">>

NonterminalsHead ==
    <<"N", "o", "n", "t", "e", "r", "m", "i", "n", "a", "l", "s", ":", " ",
      "{", "S">>

StartLine ==
    <<"S", "t", "a", "r", "t", ":", " ", "S">>

ProductionsLine ==
    <<"P", "r", "o", "d", "u", "c", "t", "i", "o", "n", "s", ":">>

Arrow == <<" ", "-", ">", " ">>

\* the helper lines "  Ti -> terminal", in alphabet order
HelperLines(alphabet) ==
    [j \in 1..Len(alphabet) |->
        <<" ", " ", "T">> \o to_string(j - 1) \o Arrow \o quote(alphabet[j])]

\* the production lines of the states, a state without alternatives skipped
RECURSIVE StateLines(_, _, _)
StateLines(d, state_names, i) ==
    IF i >= Len(d.states_) THEN <<>>
    ELSE LET opts == Opts(d, state_names, i)
         IN (IF opts = {} THEN <<>>
             ELSE << <<" ", " ">> \o name_for_state(state_names, i) \o Arrow
                     \o Join(SortStrings(opts), <<" ", "|", " ">>) >>)
            \o StateLines(d, state_names, i + 1)

\* the lines DFA::to_chomsky writes, each ended by a newline in the text
ChomskyLines(d) ==
    LET state_names == StateNames(0, Len(d.states_), d.start_state_, 0)
        others == SelectSeq(state_names, LAMBDA nm : nm /= <<"S">>)
    IN << CommentLine,
          TerminalsHead
              \o Join([j \in 1..Len(d.alphabet_) |-> quote(d.alphabet_[j])],
                      <<",", " ">>)
              \o <<"}">>,
          NonterminalsHead
              \o Join([j \in 1..Len(others) |-> <<",", " ">> \o others[j]], <<>>)
              \o <<"}">>,
          StartLine,
          ProductionsLine >>
       \o HelperLines(d.alphabet_)
       \o StateLines(d, state_names, 0)

\* the stream contents: every line followed by "\n"
RECURSIVE Unlines(_)
Unlines(lines) ==
    IF lines = <<>> THEN <<>>
    ELSE Head(lines) \o <<"\n">> \o Unlines(Tail(lines))

\* DFA::to_chomsky
to_chomsky(d) == Unlines(ChomskyLines(d))

-----------------------------------------------------------------------------
(* Grammar loader and GrammarDFA  (src/src/core/simulator_core.cpp) *)

\* find_first_not_of / find_last_not_of argument of trim
TrimChars == {" ", "\t", "\r", "\n"}

\* the whitespace operator>> skips between tokens (the vertical tab, which
\* no string of the model contains, is left out)
SpaceChars == {" ", "\t", "\n", "\r", "\f"}

\* s.find_first_not_of(" \t\r\n") searched from 0-based position k;
\* Len(s) stands for npos
RECURSIVE find_first_not_of(_, _)
find_first_not_of(s, k) ==
    IF k >= Len(s) THEN Len(s)
    ELSE IF At(s, k) \in TrimChars THEN find_first_not_of(s, k + 1)
    ELSE k

\* s.find_last_not_of(" \t\r\n") searched backwards from position k
RECURSIVE find_last_not_of(_, _)
find_last_not_of(s, k) ==
    IF At(s, k) \in TrimChars THEN find_last_not_of(s, k - 1) ELSE k

\* trim
trim(s) ==
    LET a == find_first_not_of(s, 0)
    IN IF a = Len(s) THEN <<>>
       ELSE SubSeq(s, a + 1, find_last_not_of(s, Len(s) - 1) + 1)

\* unquote: strips one pair of enclosing double quotes, nothing else
unquote(s) ==
    IF Len(s) >= 2 /\ Head(s) = "\"" /\ Last(s) = "\""
    THEN SubSeq(s, 2, Len(s) - 1)
    ELSE s

\* std::string::find(pat): 0-based position of the first occurrence, -1 for npos
npos == -1

IsAt(s, pat, k) ==
    /\ k + Len(pat) <= Len(s)
    /\ \A j \in 1..Len(pat) : s[k + j] = pat[j]

find(s, pat) ==
    LET hits == {k \in 0..(Len(s) - Len(pat)) : IsAt(s, pat, k)}
    IN IF hits = {} THEN npos
       ELSE CHOOSE k \in hits : \A j \in hits : k <= j

\* s.substr(k): from 0-based position k to the end
SubstrFrom(s, k) == SubSeq(s, k + 1, Len(s))

\* s.substr(0, k)
SubstrTo(s, k) == SubSeq(s, 1, k)

\* the lines std::getline reads from a text: each ends before the next
\* "\n", and a last line without "\n" is read if it is not empty
RECURSIVE getlines(_)
getlines(text) ==
    IF text = <<>> THEN <<>>
    ELSE LET nl == find(text, <<"\n">>)
         IN IF nl = npos THEN <<text>>
            ELSE <<SubstrTo(text, nl)>> \o getlines(SubstrFrom(text, nl + 1))

\* the tokens operator>> extracts from position k of a string; from is where
\* the current token began
RECURSIVE TokensFrom(_, _, _)
TokensFrom(s, from, k) ==
    IF k >= Len(s)
    THEN (IF from >= Len(s) THEN <<>> ELSE <<SubSeq(s, from + 1, Len(s))>>)
    ELSE IF At(s, k) \in SpaceChars
    THEN (IF from = k THEN <<>> ELSE <<SubSeq(s, from + 1, k)>>)
         \o TokensFrom(s, k + 1, k + 1)
    ELSE TokensFrom(s, from, k + 1)

Tokens(s) == TokensFrom(s, 0, 0)

\* the alternatives of a right-hand side, split at '|' and trimmed, as the
\* while (pos < rhs.size()) loop visits them
RECURSIVE Alternatives(_)
Alternatives(rhs) ==
    IF rhs = <<>> THEN <<>>
    ELSE LET next == find(rhs, <<"|">>)
         IN IF next = npos THEN <<trim(rhs)>>
            ELSE <<trim(SubstrTo(rhs, next))>>
                 \o Alternatives(SubstrFrom(rhs, next + 1))

Epsilon == <<"ε">>

\* what the first pass of load_cnf_grammar has collected
Parsed0 ==
    [T_to_term |-> EmptyMap, binary_rules |-> <<>>, terminal_rules |-> <<>>,
     nonterminals |-> {}]

\* one alternative of a nonterminal's rule
RECURSIVE ParseAlternatives(_, _, _)
ParseAlternatives(acc, lhs, alts) ==
    IF alts = <<>> THEN acc
    ELSE LET alt == Head(alts)
             toks == Tokens(alt)
             acc2 ==
                IF alt = Epsilon
                THEN [acc EXCEPT !.terminal_rules = Append(@, <<lhs, Epsilon>>)]
                ELSE IF Len(toks) = 1
                THEN LET atom == toks[1]
                     IN IF Head(atom) = "T"
                        THEN [acc EXCEPT !.terminal_rules = Append(@, <<lhs, atom>>)]
                        ELSE [acc EXCEPT !.terminal_rules =
                                            Append(@, <<lhs, unquote(atom)>>)]
                ELSE IF Len(toks) = 2
                THEN [acc EXCEPT !.binary_rules =
                                    Append(@, <<lhs, toks[1] \o <<" ">> \o toks[2]>>)]
                ELSE acc
         IN ParseAlternatives(acc2, lhs, Tail(alts))

\* the body of the getline loop for one line
ParseLine(acc, raw) ==
    LET line == trim(raw)
        arrow == find(line, <<"-", ">">>)
        lhs == trim(SubstrTo(line, arrow))
        rhs == trim(SubstrFrom(line, arrow + 2))
    IN IF line = <<>> THEN acc
       ELSE IF Head(line) = "#" THEN acc
       ELSE IF arrow = npos THEN acc
       ELSE IF lhs /= <<>> /\ Head(lhs) = "T"
       THEN [acc EXCEPT !.T_to_term = MapPut(@, lhs, unquote(trim(rhs)))]
       ELSE ParseAlternatives([acc EXCEPT !.nonterminals = @ \cup {lhs}],
                              lhs, Alternatives(rhs))

RECURSIVE ParseLines(_, _)
ParseLines(acc, lines) ==
    IF lines = <<>> THEN acc
    ELSE ParseLines(ParseLine(acc, Head(lines)), Tail(lines))

\* a default-constructed GrammarDFA
GrammarDFA0 ==
    [names |-> <<>>, idx |-> EmptyMap, trans |-> <<>>, accepting |-> <<>>,
     start |-> 0]

\* GrammarDFA::add_state_if_missing
add_state_if_missing(g, name) ==
    IF name \in DOMAIN g.idx THEN g
    ELSE [g EXCEPT !.names = Append(@, name),
                   !.idx = MapPut(@, name, Len(g.names)),
                   !.trans = Append(@, EmptyMap),
                   !.accepting = Append(@, FALSE)]

\* GrammarDFA::set_start
set_start(g, name) ==
    LET h == add_state_if_missing(g, name)
    IN [h EXCEPT !.start = h.idx[name]]

\* GrammarDFA::set_accepting
set_accepting(g, name) ==
    LET h == add_state_if_missing(g, name)
    IN [h EXCEPT !.accepting[h.idx[name] + 1] = TRUE]

\* a faulty variant of add_transition that keeps the target of a pair that
\* has one already; C39_BuilderInvariant rules it out
AddTransitionKeepFirst(g, from, on, to) ==
    LET h == add_state_if_missing(add_state_if_missing(g, from), to)
    IN IF on \in DOMAIN h.trans[h.idx[from] + 1] THEN h
       ELSE [h EXCEPT !.trans[h.idx[from] + 1] = MapPut(@, on, h.idx[to])]

\* GrammarDFA::add_transition
add_transition(g, from, on, to) ==
    LET h == add_state_if_missing(add_state_if_missing(g, from), to)
    IN [h EXCEPT !.trans[h.idx[from] + 1] = MapPut(@, on, h.idx[to])]

AcceptName == <<"A", "c", "c", "e", "p", "t">>

\* the loop "for nt in nonterminals: add_state_if_missing(nt)" for one
\* iteration order of the unordered_set
RECURSIVE AddStates(_, _)
AddStates(g, order) ==
    IF order = <<>> THEN g
    ELSE AddStates(add_state_if_missing(g, Head(order)), Tail(order))

\* the start chosen after the states exist
ChooseStart(g) ==
    IF <<"S">> \in DOMAIN g.idx THEN [g EXCEPT !.start = g.idx[<<"S">>]]
    ELSE IF g.names /= <<>> THEN [g EXCEPT !.start = 0]
    ELSE g

\* a faulty variant of ApplyTerminalRules that also marks the left-hand side
\* of a unit-terminal alternative accepting; C27_AcceptingStates rules it out
RECURSIVE ApplyTerminalRulesMarking(_, _, _)
ApplyTerminalRulesMarking(g, T_to_term, rules) ==
    IF rules = <<>> THEN g
    ELSE LET lhs == Head(rules)[1]
             atom == Head(rules)[2]
             g2 == IF atom = Epsilon THEN set_accepting(g, lhs)
                   ELSE IF atom /= <<>> /\ Head(atom) = "T"
                   THEN IF atom \in DOMAIN T_to_term
                        THEN add_transition(g, lhs, T_to_term[atom], AcceptName)
                        ELSE g
                   ELSE set_accepting(add_transition(g, lhs, atom, AcceptName), lhs)
         IN ApplyTerminalRulesMarking(g2, T_to_term, Tail(rules))

\* the loop applying terminal_rules
RECURSIVE ApplyTerminalRules(_, _, _)
ApplyTerminalRules(g, T_to_term, rules) ==
    IF rules = <<>> THEN g
    ELSE LET lhs == Head(rules)[1]
             atom == Head(rules)[2]
             g2 == IF atom = Epsilon THEN set_accepting(g, lhs)
                   ELSE IF atom /= <<>> /\ Head(atom) = "T"
                   THEN IF atom \in DOMAIN T_to_term
                        THEN add_transition(g, lhs, T_to_term[atom], AcceptName)
                        ELSE g
                   ELSE add_transition(g, lhs, atom, AcceptName)
         IN ApplyTerminalRules(g2, T_to_term, Tail(rules))

\* the loop applying binary_rules
RECURSIVE ApplyBinaryRules(_, _, _)
ApplyBinaryRules(g, T_to_term, rules) ==
    IF rules = <<>> THEN g
    ELSE LET lhs == Head(rules)[1]
             toks == Tokens(Head(rules)[2])
             t0 == toks[1]
             t1 == toks[2]
             term == IF t0 /= <<>> /\ Head(t0) = "T"
                     THEN IF t0 \in DOMAIN T_to_term THEN T_to_term[t0] ELSE t0
                     ELSE unquote(t0)
         IN ApplyBinaryRules(add_transition(g, lhs, term, t1), T_to_term,
                             Tail(rules))

\* the iteration orders of the unordered_set nonterminals that the model
\* distinguishes: any element may come first (index 0 is the default start),
\* the others follow in ascending order
IterationOrders(S) ==
    IF S = {} THEN {<<>>}
    ELSE {<<first>> \o SortStrings(S \ {first}) : first \in S}

\* first half of load_cnf_grammar: the getline loop over the file's text
ParseText(text) == ParseLines(Parsed0, getlines(text))

\* second half of load_cnf_grammar: the states, Accept, the start and the
\* rules, for one iteration order of nonterminals
BuildStates(parsed, out, order) ==
    LET withStates == AddStates(out, order)
        withAccept == set_accepting(withStates, AcceptName)
        started == ChooseStart(withAccept)
        withTerminal == ApplyTerminalRules(started, parsed.T_to_term,
                                           parsed.terminal_rules)
    IN ApplyBinaryRules(withTerminal, parsed.T_to_term, parsed.binary_rules)

\* load_cnf_grammar on an opened file holding text, filling the GrammarDFA out
load_cnf_grammar(text, out, order) == BuildStates(ParseText(text), out, order)

\* the body of the getline loop of the standalone simulator's load_cnf_grammar
\* for one line: a helper's left-hand side is also put in nonterminals
StandaloneParseLine(acc, raw) ==
    LET line == trim(raw)
        arrow == find(line, <<"-", ">">>)
        lhs == trim(SubstrTo(line, arrow))
        rhs == trim(SubstrFrom(line, arrow + 2))
    IN IF line = <<>> THEN acc
       ELSE IF Head(line) = "#" THEN acc
       ELSE IF arrow = npos THEN acc
       ELSE IF lhs /= <<>> /\ Head(lhs) = "T"
       THEN [acc EXCEPT !.T_to_term = MapPut(@, lhs, unquote(trim(rhs))),
                        !.nonterminals = @ \cup {lhs}]
       ELSE ParseAlternatives([acc EXCEPT !.nonterminals = @ \cup {lhs}],
                              lhs, Alternatives(rhs))

RECURSIVE StandaloneParseLines(_, _)
StandaloneParseLines(acc, lines) ==
    IF lines = <<>> THEN acc
    ELSE StandaloneParseLines(StandaloneParseLine(acc, Head(lines)), Tail(lines))

\* the loop applying terminal_rules in the standalone simulator: the
\* left-hand side is marked accepting, no transition is made
RECURSIVE StandaloneApplyTerminalRules(_, _, _)
StandaloneApplyTerminalRules(g, T_to_term, rules) ==
    IF rules = <<>> THEN g
    ELSE LET lhs == Head(rules)[1]
             atom == Head(rules)[2]
             g2 == IF atom = Epsilon THEN set_accepting(g, lhs)
                   ELSE IF atom /= <<>> /\ Head(atom) = "T"
                   THEN IF atom \in DOMAIN T_to_term
                        THEN set_accepting(g, lhs)
                        ELSE g
                   ELSE set_accepting(g, lhs)
         IN StandaloneApplyTerminalRules(g2, T_to_term, Tail(rules))

\* second half of the standalone simulator's load_cnf_grammar: the states
\* (no Accept state is added), the start and the rules
StandaloneBuildStates(parsed, out, order) ==
    LET started == ChooseStart(AddStates(out, order))
        withTerminal == StandaloneApplyTerminalRules(started, parsed.T_to_term,
                                                     parsed.terminal_rules)
    IN ApplyBinaryRules(withTerminal, parsed.T_to_term, parsed.binary_rules)

\* the standalone simulator has loaded nothing
StandaloneIdle == sgdfa = GrammarDFA0

ReasonEmpty ==
    <<"e", "m", "p", "t", "y", " ", "g", "r", "a", "m", "m", "a", "r">>

ReasonAccepted ==
    <<"a", "c", "c", "e", "p", "t", "e", "d">>

\* a faulty variant of ReasonNoTransition that counts positions from 1;
\* C14_ClassifyWithReason rules it out
ReasonNoTransitionFromOne(sym, name, i) ==
    <<"n", "o", " ", "t", "r", "a", "n", "s", "i", "t", "i", "o", "n", " ",
      "o", "n", " ", "'">>
    \o sym \o
    <<"'", " ", "f", "r", "o", "m", " ", "s", "t", "a", "t", "e", " ", "'">>
    \o name \o
    <<"'", " ", "a", "t", " ", "p", "o", "s", "i", "t", "i", "o", "n", " ">>
    \o to_string(i + 1)

ReasonNoTransition(sym, name, i) ==
    <<"n", "o", " ", "t", "r", "a", "n", "s", "i", "t", "i", "o", "n", " ",
      "o", "n", " ", "'">>
    \o sym \o
    <<"'", " ", "f", "r", "o", "m", " ", "s", "t", "a", "t", "e", " ", "'">>
    \o name \o
    <<"'", " ", "a", "t", " ", "p", "o", "s", "i", "t", "i", "o", "n", " ">>
    \o to_string(i)

ReasonNonAccepting(name) ==
    <<"e", "n", "d", "e", "d", " ", "i", "n", " ", "n", "o", "n", "-", "a",
      "c", "c", "e", "p", "t", "i", "n", "g", " ", "s", "t", "a", "t", "e",
      " ", "'">>
    \o name \o <<"'">>

\* the loop of GrammarDFA::classify_with_reason from state cur at position i
RECURSIVE ReasonFrom(_, _, _, _)
ReasonFrom(g, cur, seq, i) ==
    IF i >= Len(seq)
    THEN IF At(g.accepting, cur) THEN <<TRUE, ReasonAccepted>>
         ELSE <<FALSE, ReasonNonAccepting(At(g.names, cur))>>
    ELSE LET sym == At(seq, i)
         IN IF sym \notin DOMAIN At(g.trans, cur)
            THEN <<FALSE, ReasonNoTransition(sym, At(g.names, cur), i)>>
            ELSE ReasonFrom(g, At(g.trans, cur)[sym], seq, i + 1)

\* GrammarDFA::classify_with_reason
classify_with_reason(g, seq) ==
    IF g.names = <<>> THEN <<FALSE, ReasonEmpty>>
    ELSE ReasonFrom(g, g.start, seq, 0)

-----------------------------------------------------------------------------
(* Evaluation: evaluate  (src/src/evaluator.cpp) *)

\* test samples and test lists handed to evaluate
TestSample == [symbols : SeqsUpTo(TrainSymbols, MaxTestLen), label : BOOLEAN]

TestLists == SeqsUpTo(TestSample, MaxTests)

RECURSIVE Gcd(_, _)
Gcd(a, b) == IF b = 0 THEN a ELSE Gcd(b, a % b)

\* the double n / d of two small counts, d > 0: two such quotients are the
\* same double exactly when they are the same fraction, so the value is kept
\* as the fraction in lowest terms
Ratio(n, d) == [num |-> n \div Gcd(n, d), den |-> d \div Gcd(n, d)]

\* the double 0.0
Zero == [num |-> 0, den |-> 1]

\* Metrics as default-initialised
Metrics0 ==
    [accuracy |-> Zero, false_positive_rate |-> Zero,
     false_negative_rate |-> Zero,
     states_before |-> 0, states_after |-> 0, minimization_ms |-> Zero]

Counters0 ==
    [true_positive |-> 0, true_negative |-> 0,
     false_positive |-> 0, false_negative |-> 0]

\* the loop of evaluate over the remaining test samples
RECURSIVE CountLoop(_, _, _)
CountLoop(d, rest, c) ==
    IF rest = <<>> THEN c
    ELSE LET predicted == classify(d, Head(rest).symbols)
             actual == Head(rest).label
             c2 == IF predicted /\ actual
                   THEN [c EXCEPT !.true_positive = @ + 1]
                   ELSE IF ~predicted /\ ~actual
                   THEN [c EXCEPT !.true_negative = @ + 1]
                   ELSE IF predicted /\ ~actual
                   THEN [c EXCEPT !.false_positive = @ + 1]
                   ELSE [c EXCEPT !.false_negative = @ + 1]
         IN CountLoop(d, Tail(rest), c2)

\* a faulty variant of evaluate that divides the false positives by the
\* number of all samples; C16_Metrics rules it out
evaluateFprOverTotal(d, test_sequences) ==
    IF test_sequences = <<>> THEN Metrics0
    ELSE LET c == CountLoop(d, test_sequences, Counters0)
             total == Len(test_sequences)
             fn_denom == c.false_negative + c.true_positive
         IN [Metrics0 EXCEPT
                !.accuracy = Ratio(c.true_positive + c.true_negative, total),
                !.false_positive_rate = Ratio(c.false_positive, total),
                !.false_negative_rate =
                    IF fn_denom > 0 THEN Ratio(c.false_negative, fn_denom) ELSE Zero]

\* evaluate(dfa, test_sequences)
evaluate(d, test_sequences) ==
    IF test_sequences = <<>> THEN Metrics0
    ELSE LET c == CountLoop(d, test_sequences, Counters0)
             total == Len(test_sequences)
             fp_denom == c.false_positive + c.true_negative
             fn_denom == c.false_negative + c.true_positive
         IN [Metrics0 EXCEPT
                !.accuracy = Ratio(c.true_positive + c.true_negative, total),
                !.false_positive_rate =
                    IF fp_denom > 0 THEN Ratio(c.false_positive, fp_denom) ELSE Zero,
                !.false_negative_rate =
                    IF fn_denom > 0 THEN Ratio(c.false_negative, fn_denom) ELSE Zero]

\* evaluate has not been called
EvalIdle ==
    /\ tests = <<>>
    /\ metrics = Metrics0

-----------------------------------------------------------------------------
(* PDA simulator: simulate_pda  (src/src/api/main.cpp) *)

\* PDATransition records the PDAs of the model are made of: input_symbol,
\* pop_symbol ("ε" for none), push_symbols (first listed becomes the top),
\* next_state
Trans(in, pop, push, next) ==
    [input_symbol |-> in, pop_symbol |-> pop, push_symbols |-> push,
     next_state |-> next]

TransPool ==
    { Trans("a", "ε", <<"Z">>, 0),       \* push on a
      Trans("b", "Z", <<>>, 1),          \* pop on b, move
      Trans("b", "Z", <<>>, 0),          \* pop on b, stay
      Trans("ε", "ε", <<>>, 0),          \* ε-move to state 0
      Trans("ε", "ε", <<>>, 1),          \* ε-move to state 1
      Trans("a", "ε", <<>>, 1),          \* consume without stack use
      Trans("ε", "Z", <<>>, 1),          \* ε-pop
      Trans("a", "ε", <<"Y", "Z">>, 0),  \* push two symbols, Y on top
      Trans("b", "Y", <<"Y">>, 1),       \* replace the top
      Trans("ε", "ε", <<"Z">>, 0) }      \* ε-push

\* PDAState
PDAState(name, accepting, transitions) ==
    [name |-> name, accepting |-> accepting, transitions |-> transitions]

\* the PDAs simulate_pda is run on: two states with distinct names, as
\* PDA::get_or_add_state creates them, every next_state a valid index
PDAs ==
    { [states |-> << PDAState("q0", acc0, tr0), PDAState("q1", acc1, tr1) >>,
       start |-> 0] :
        acc0 \in BOOLEAN, acc1 \in BOOLEAN,
        tr0 \in SeqsUpTo(TransPool, 2), tr1 \in SeqsUpTo(TransPool, 1) }

InputSymbols == {"a", "b"}

Inputs == SeqsUpTo(InputSymbols, MaxInputLen)

RECURSIVE Reverse(_)
Reverse(v) == IF v = <<>> THEN <<>> ELSE Append(Reverse(Tail(v)), Head(v))

\* SimulationState
SimulationState(state_idx, input_idx, stack, trace) ==
    [state_idx |-> state_idx, input_idx |-> input_idx, stack |-> stack,
     trace |-> trace]

\* consumes_input of the transition loop
consumes_input(trans, current, inp) ==
    /\ trans.input_symbol /= "ε"
    /\ current.input_idx < Len(inp)
    /\ trans.input_symbol = At(inp, current.input_idx)

\* a faulty variant of input_match that never takes an ε-transition;
\* C35_CompleteBelowCap rules it out
InputMatchNoEpsilon(trans, current, inp) ==
    consumes_input(trans, current, inp)

\* input_match of the transition loop
input_match(trans, current, inp) ==
    \/ trans.input_symbol = "ε"
    \/ consumes_input(trans, current, inp)

\* a faulty variant of stack_match that only requires a non-empty stack;
\* C9_AcceptedTraceIsRun rules it out
StackMatchAnyTop(trans, current) ==
    \/ trans.pop_symbol = "ε"
    \/ current.stack /= <<>>

\* stack_match of the transition loop
stack_match(trans, current) ==
    \/ trans.pop_symbol = "ε"
    \/ (current.stack /= <<>> /\ Last(current.stack) = trans.pop_symbol)

\* a faulty variant of NextStack that pushes push_symbols from first to
\* last, so that the last listed symbol becomes the top; C22_SuccessorRelation
\* rules it out
NextStackInOrder(trans, stack) ==
    (IF trans.pop_symbol /= "ε" THEN SubSeq(stack, 1, Len(stack) - 1) ELSE stack)
    \o trans.push_symbols

\* the stack of the successor: pop if a pop symbol is required, then push
\* push_symbols from last to first
NextStack(trans, stack) ==
    (IF trans.pop_symbol /= "ε" THEN SubSeq(stack, 1, Len(stack) - 1) ELSE stack)
    \o Reverse(trans.push_symbols)

\* the PDAStep recorded for a taken transition
PDAStep(p, trans, current, inp) ==
    [current_state |-> At(p.states, current.state_idx).name,
     next_state |-> At(p.states, trans.next_state).name,
     symbol |-> IF consumes_input(trans, current, inp)
                THEN At(inp, current.input_idx) ELSE "ε",
     stack_after |-> NextStack(trans, current.stack),
     op |-> IF trans.push_symbols /= <<>> THEN "PUSH"
            ELSE IF trans.pop_symbol /= "ε" THEN "POP"
            ELSE "NO_OP"]

\* a faulty variant of Successor that advances the input index on every
\* transition; C36_ConfigurationInvariant rules it out
SuccessorAlwaysAdvancing(p, trans, current, inp) ==
    SimulationState(
        trans.next_state,
        current.input_idx + 1,
        NextStack(trans, current.stack),
        Append(current.trace, PDAStep(p, trans, current, inp)))

\* the configuration enqueued for a taken transition
Successor(p, trans, current, inp) ==
    SimulationState(
        trans.next_state,
        IF consumes_input(trans, current, inp)
        THEN current.input_idx + 1 ELSE current.input_idx,
        NextStack(trans, current.stack),
        Append(current.trace, PDAStep(p, trans, current, inp)))

\* the configurations the transition loop enqueues, in declaration order
RECURSIVE Successors(_, _, _, _)
Successors(p, transitions, current, inp) ==
    IF transitions = <<>> THEN <<>>
    ELSE (IF input_match(Head(transitions), current, inp)
             /\ stack_match(Head(transitions), current)
          THEN <<Successor(p, Head(transitions), current, inp)>>
          ELSE <<>>)
         \o Successors(p, Tail(transitions), current, inp)

\* a faulty variant of IsAccepting that also asks for an empty stack;
\* C23_AcceptByState rules it out
IsAcceptingEmptyStack(p, current, inp) ==
    /\ current.input_idx = Len(inp)
    /\ At(p.states, current.state_idx).accepting
    /\ current.stack = <<>>

\* the test that returns {true, current.trace}
IsAccepting(p, current, inp) ==
    /\ current.input_idx = Len(inp)
    /\ At(p.states, current.state_idx).accepting

\* a faulty variant of PushBack that puts the successors at the front of the
\* queue (depth first); C34_ShortestTrace rules it out
PushFront(q, successors) == successors \o q

\* queue.push_back(next) for the successors of one iteration, in order
PushBack(q, successors) == q \o successors

\* simulate_pda is called: the queue holds the start configuration
InitSim ==
    /\ pda \in PDAs
    /\ input \in Inputs
    /\ queue = <<SimulationState(pda.start, 0, <<>>, <<>>)>>
    /\ steps_count = 0
    /\ best_input_consumed = 0
    /\ best_trace = <<>>
    /\ dequeued = 0
    /\ visited = <<>>
    /\ result = [ok |-> FALSE, steps |-> <<>>]
    /\ spc = "loop"

\* the pipeline objects stay as constructed in the simulator's specification
PipeIdle == UNCHANGED pipeVars

\* a faulty variant of BestAfter that also replaces the best trace on an equal
\* input index; C11_BestProgressTrace rules it out
BestAfterLatest(current) ==
    IF current.input_idx >= best_input_consumed
    THEN [consumed |-> current.input_idx, trace |-> current.trace]
    ELSE [consumed |-> best_input_consumed, trace |-> best_trace]

\* the orders the transition loop of an iteration can visit a state's
\* transitions in; a variant for a container without a fixed iteration order,
\* which C12_SameResultEveryRun rules out
AnyTransitionOrder(transitions) ==
    {[k \in 1..Len(transitions) |-> transitions[f[k]]] :
        f \in {g \in [1..Len(transitions) -> 1..Len(transitions)] :
                  \A i, j \in 1..Len(transitions) : i /= j => g[i] /= g[j]}}

\* the orders the transition loop can visit a state's transitions in:
\* state.transitions is a std::vector, iterated from front to back
TransitionOrders(transitions) == {transitions}

\* the update of best_input_consumed / best_trace for the dequeued current
BestAfter(current) ==
    IF current.input_idx > best_input_consumed
    THEN [consumed |-> current.input_idx, trace |-> current.trace]
    ELSE [consumed |-> best_input_consumed, trace |-> best_trace]

\* while (!queue.empty()) fails: return {false, best_trace}
QueueEmpty ==
    /\ spc = "loop"
    /\ queue = <<>>
    /\ result' = [ok |-> FALSE, steps |-> best_trace]
    /\ spc' = "done"
    /\ UNCHANGED <<pda, input, queue, steps_count, best_input_consumed,
                   best_trace, dequeued, visited>>
    /\ PipeIdle
    /\ UNCHANGED evalVars
    /\ UNCHANGED quoteVars
    /\ UNCHANGED validateVars
    /\ UNCHANGED standaloneVars

\* if (steps_count++ > max_steps) break; then return {false, best_trace}
CapExceeded ==
    /\ spc = "loop"
    /\ queue /= <<>>
    /\ steps_count > max_steps
    /\ steps_count' = steps_count + 1
    /\ result' = [ok |-> FALSE, steps |-> best_trace]
    /\ spc' = "done"
    /\ UNCHANGED <<pda, input, queue, best_input_consumed, best_trace, dequeued,
                   visited>>
    /\ PipeIdle
    /\ UNCHANGED evalVars
    /\ UNCHANGED quoteVars
    /\ UNCHANGED validateVars
    /\ UNCHANGED standaloneVars

\* an iteration that dequeues an accepting configuration with all input
\* consumed: return {true, current.trace}
AcceptStep ==
    /\ spc = "loop"
    /\ queue /= <<>>
    /\ ~(steps_count > max_steps)
    /\ IsAccepting(pda, Head(queue), input)
    /\ steps_count' = steps_count + 1
    /\ queue' = Tail(queue)
    /\ dequeued' = dequeued + 1
    /\ visited' = Append(visited, Head(queue))
    /\ best_input_consumed' = BestAfter(Head(queue)).consumed
    /\ best_trace' = BestAfter(Head(queue)).trace
    /\ result' = [ok |-> TRUE, steps |-> Head(queue).trace]
    /\ spc' = "done"
    /\ UNCHANGED <<pda, input>>
    /\ PipeIdle
    /\ UNCHANGED evalVars
    /\ UNCHANGED quoteVars
    /\ UNCHANGED validateVars
    /\ UNCHANGED standaloneVars

\* an iteration that dequeues any other configuration and enqueues its
\* successors
ExpandStep ==
    /\ spc = "loop"
    /\ queue /= <<>>
    /\ ~(steps_count > max_steps)
    /\ ~IsAccepting(pda, Head(queue), input)
    /\ steps_count' = steps_count + 1
    /\ \E transitions \in
            TransitionOrders(At(pda.states, Head(queue).state_idx).transitions) :
          queue' = PushBack(Tail(queue),
                            Successors(pda, transitions, Head(queue), input))
    /\ dequeued' = dequeued + 1
    /\ visited' = Append(visited, Head(queue))
    /\ best_input_consumed' = BestAfter(Head(queue)).consumed
    /\ best_trace' = BestAfter(Head(queue)).trace
    /\ UNCHANGED <<pda, input, result, spc>>
    /\ PipeIdle
    /\ UNCHANGED evalVars
    /\ UNCHANGED quoteVars
    /\ UNCHANGED validateVars
    /\ UNCHANGED standaloneVars

-----------------------------------------------------------------------------
(* The training and export pipeline: build -> from_pta -> minimize ->        *)
(* to_chomsky -> load_cnf_grammar, one action per call                       *)

\* the PDA simulator is not running in the pipeline's specification
SimIdle ==
    /\ pda = <<>>
    /\ input = <<>>
    /\ queue = <<>>
    /\ steps_count = 0
    /\ best_input_consumed = 0
    /\ best_trace = <<>>
    /\ dequeued = 0
    /\ visited = <<>>
    /\ result = [ok |-> FALSE, steps |-> <<>>]
    /\ spc = "idle"

\* the objects after construction: PTA() holds the root, DFA() and
\* GrammarDFA are empty, nothing has been written
InitPipe ==
    /\ pc = "init"
    /\ samples = <<>>
    /\ pta = ensure_root
    /\ dfa = DFA0
    /\ min = DFA0
    /\ min2 = DFA0
    /\ exported = DFA0
    /\ grammar = <<>>
    /\ gdfa = GrammarDFA0

\* pta.build(samples)
Build ==
    /\ pc = "init"
    /\ \E s \in SampleLists :
          /\ samples' = s
          /\ pta' = PTAbuild(s)
    /\ pc' = "built"
    /\ UNCHANGED <<dfa, min, min2, exported, grammar, gdfa>>
    /\ UNCHANGED simVars
    /\ UNCHANGED evalVars
    /\ UNCHANGED quoteVars
    /\ UNCHANGED validateVars
    /\ UNCHANGED standaloneVars

\* pta.build(samples) once more, on the PTA that was built before
Rebuild ==
    /\ pc = "built"
    /\ \E s \in SampleLists :
          /\ samples' = s
          /\ pta' = build(pta, s)
    /\ pc' = "built"
    /\ UNCHANGED <<dfa, min, min2, exported, grammar, gdfa>>
    /\ UNCHANGED simVars
    /\ UNCHANGED evalVars
    /\ UNCHANGED quoteVars
    /\ UNCHANGED validateVars
    /\ UNCHANGED standaloneVars

\* dfa = DFA::from_pta(pta)
FromPta ==
    /\ pc = "built"
    /\ IF from_pta_throws(pta)
       THEN pc' = "failed" /\ dfa' = dfa
       ELSE pc' = "dfa" /\ dfa' = from_pta(pta)
    /\ UNCHANGED <<samples, pta, min, min2, exported, grammar, gdfa>>
    /\ UNCHANGED simVars
    /\ UNCHANGED evalVars
    /\ UNCHANGED quoteVars
    /\ UNCHANGED validateVars
    /\ UNCHANGED standaloneVars

\* min = dfa.minimize()
Minimize ==
    /\ pc = "dfa"
    /\ min' = minimize(dfa)
    /\ pc' = "min"
    /\ UNCHANGED <<samples, pta, dfa, min2, exported, grammar, gdfa>>
    /\ UNCHANGED simVars
    /\ UNCHANGED evalVars
    /\ UNCHANGED quoteVars
    /\ UNCHANGED validateVars
    /\ UNCHANGED standaloneVars

\* min2 = min.minimize()
MinimizeAgain ==
    /\ pc = "min"
    /\ min2' = minimize(min)
    /\ pc' = "min2"
    /\ UNCHANGED <<samples, pta, dfa, min, exported, grammar, gdfa>>
    /\ UNCHANGED simVars
    /\ UNCHANGED evalVars
    /\ UNCHANGED quoteVars
    /\ UNCHANGED validateVars
    /\ UNCHANGED standaloneVars

\* grammar = D.to_chomsky() for the minimized DFA or the unminimized one
ToChomsky ==
    /\ pc = "min2"
    /\ \E D \in {dfa, min} :
          /\ exported' = D
          /\ grammar' = to_chomsky(D)
    /\ pc' = "exported"
    /\ UNCHANGED <<samples, pta, dfa, min, min2, gdfa>>
    /\ UNCHANGED simVars
    /\ UNCHANGED evalVars
    /\ UNCHANGED quoteVars
    /\ UNCHANGED validateVars
    /\ UNCHANGED standaloneVars

\* load_cnf_grammar(file holding grammar, gdfa, err) on a fresh GrammarDFA
LoadCnf ==
    /\ pc \in {"exported", "written"}
    /\ \E parsed \in {ParseText(grammar)} :
          \E order \in IterationOrders(parsed.nonterminals) :
              gdfa' = BuildStates(parsed, GrammarDFA0, order)
    /\ pc' = "loaded"
    /\ UNCHANGED <<samples, pta, dfa, min, min2, exported, grammar>>
    /\ UNCHANGED simVars
    /\ UNCHANGED evalVars
    /\ UNCHANGED quoteVars
    /\ UNCHANGED validateVars
    /\ UNCHANGED standaloneVars

\* metrics = evaluate(min, tests): the generator evaluates the minimized DFA
Evaluate ==
    /\ pc = "min"
    /\ \E t \in TestLists :
          /\ tests' = t
          /\ metrics' = evaluate(min, t)
    /\ pc' = "evaluated"
    /\ UNCHANGED <<samples, pta, dfa, min, min2, exported, grammar, gdfa>>
    /\ UNCHANGED simVars
    /\ UNCHANGED quoteVars
    /\ UNCHANGED validateVars
    /\ UNCHANGED standaloneVars

\* std::string::rfind(pat, pos): 0-based position of the last occurrence that
\* starts at or before pos, -1 for npos
rfind(s, pat, pos) ==
    LET at == {k \in 0..pos : /\ k + Len(pat) <= Len(s)
                              /\ SubSeq(s, k + 1, k + Len(pat)) = pat}
    IN IF at = {} THEN npos ELSE CHOOSE k \in at : \A j \in at : j <= k

StatePrefix == <<"s", "t", "a", "t", "e", "=">>
PushToken == <<"s", "t", "a", "t", "e", "=", "S", "0">>
PopToken == <<"s", "t", "a", "t", "e", "=", "S", "F">>

\* PDAResult of core.hpp
PDAResult(ok, reason) == [ok |-> ok, reason |-> reason]

\* the loop of validate_pda_sequence from index i (0-based) with the given
\* stack, and the two returns after it; the pop never removes from an empty
\* stack
RECURSIVE ScanNoUnderflow(_, _, _)
ScanNoUnderflow(sq, i, stack) ==
    IF i >= Len(sq)
    THEN IF stack /= <<>>
         THEN PDAResult(FALSE, <<"f", "i", "n", "a", "l", " ", "s", "t", "a", "c", "k", " ", "n", "o", "t", " ", "e", "m", "p", "t", "y", " ", "(">> \o to_string(Len(stack)) \o <<" ", "u", "n", "m", "a", "t", "c", "h", "e", "d", " ", "p", "u", "s", "h", "e", "s", ")">>)
         ELSE PDAResult(TRUE, <<"a", "c", "c", "e", "p", "t", "e", "d">>)
    ELSE LET s == sq[i + 1]
         IN IF rfind(s, StatePrefix, 0) = 0
            THEN IF s = PushToken
                 THEN ScanNoUnderflow(sq, i + 1, Append(stack, s))
                 ELSE IF s = PopToken
                      THEN IF stack = <<>>
                           THEN ScanNoUnderflow(sq, i + 1, stack)
                           ELSE ScanNoUnderflow(sq, i + 1, SubSeq(stack, 1, Len(stack) - 1))
                      ELSE ScanNoUnderflow(sq, i + 1, stack)
            ELSE ScanNoUnderflow(sq, i + 1, stack)

\* the loop of validate_pda_sequence from index i (0-based) with the given
\* stack, and the two returns after it
RECURSIVE Scan(_, _, _)
Scan(sq, i, stack) ==
    IF i >= Len(sq)
    THEN IF stack /= <<>>
         THEN PDAResult(FALSE, <<"f", "i", "n", "a", "l", " ", "s", "t", "a", "c", "k", " ", "n", "o", "t", " ", "e", "m", "p", "t", "y", " ", "(">> \o to_string(Len(stack)) \o <<" ", "u", "n", "m", "a", "t", "c", "h", "e", "d", " ", "p", "u", "s", "h", "e", "s", ")">>)
         ELSE PDAResult(TRUE, <<"a", "c", "c", "e", "p", "t", "e", "d">>)
    ELSE LET s == sq[i + 1]
         IN IF rfind(s, StatePrefix, 0) = 0
            THEN IF s = PushToken
                 THEN Scan(sq, i + 1, Append(stack, s))
                 ELSE IF s = PopToken
                      THEN IF stack = <<>>
                           THEN PDAResult(FALSE, <<"p", "o", "p", " ", "w", "i", "t", "h", "o", "u", "t", " ", "m", "a", "t", "c", "h", "i", "n", "g", " ", "p", "u", "s", "h", " ", "a", "t", " ", "p", "o", "s", "i", "t", "i", "o", "n", " ">> \o to_string(i))
                           ELSE Scan(sq, i + 1, SubSeq(stack, 1, Len(stack) - 1))
                      ELSE Scan(sq, i + 1, stack)
            ELSE Scan(sq, i + 1, stack)

validate_pda_sequence(sq) == Scan(sq, 0, <<>>)

\* validate_pda_sequence is not running
ValidateIdle ==
    /\ vseq = <<>>
    /\ presult = PDAResult(TRUE, <<>>)
    /\ vpc = "idle"

\* the quote lambda is not running
QuoteIdle ==
    /\ terminal = <<>>
    /\ emitted = <<>>
    /\ qpc = "idle"
    /\ readTerms = EmptyMap

Init == InitPipe /\ SimIdle /\ EvalIdle /\ QuoteIdle /\ ValidateIdle /\ StandaloneIdle

Next ==
    \/ Build
    \/ Rebuild
    \/ FromPta
    \/ Minimize
    \/ MinimizeAgain
    \/ ToChomsky
    \/ LoadCnf

Spec == Init /\ [][Next]_vars

\* the simulator's specification: one call of simulate_pda
InitPDA == InitPipe /\ InitSim /\ EvalIdle /\ QuoteIdle /\ ValidateIdle /\ StandaloneIdle

NextPDA ==
    \/ QueueEmpty
    \/ CapExceeded
    \/ AcceptStep
    \/ ExpandStep

SpecPDA == InitPDA /\ [][NextPDA]_vars

\* the evaluation's specification: train, minimize, evaluate on a test list
NextEval ==
    \/ Build
    \/ FromPta
    \/ Minimize
    \/ Evaluate

SpecEval == Init /\ [][NextEval]_vars

\* the characters of the terminals given to the quote lambda
TermChars == {"a", " ", "\t", "\"", "\\"}

Terminals == SeqsUpTo(TermChars, MaxTermLen)

\* to_chomsky is about to call quote(terminal)
InitQuote ==
    /\ InitPipe /\ SimIdle /\ EvalIdle /\ ValidateIdle /\ StandaloneIdle
    /\ terminal \in Terminals
    /\ emitted = <<>>
    /\ qpc = "call"
    /\ readTerms = EmptyMap

\* emitted = quote(terminal)
QuoteTerminal ==
    /\ qpc = "call"
    /\ emitted' = quote(terminal)
    /\ qpc' = "done"
    /\ UNCHANGED <<terminal, readTerms>>
    /\ PipeIdle
    /\ UNCHANGED simVars
    /\ UNCHANGED evalVars
    /\ UNCHANGED validateVars
    /\ UNCHANGED standaloneVars

\* the first helper line of to_chomsky, holding what quote returned, goes
\* through the getline loop of load_cnf_grammar
ReadHelperLine ==
    /\ qpc = "done"
    /\ readTerms' =
           ParseLine(Parsed0, <<" ", " ", "T">> \o to_string(0) \o Arrow \o emitted).T_to_term
    /\ qpc' = "read"
    /\ UNCHANGED <<terminal, emitted>>
    /\ PipeIdle
    /\ UNCHANGED simVars
    /\ UNCHANGED evalVars
    /\ UNCHANGED validateVars
    /\ UNCHANGED standaloneVars

NextQuote ==
    \/ QuoteTerminal
    \/ ReadHelperLine

SpecQuote == InitQuote /\ [][NextQuote]_vars

\* the lines the grammar files of the model are made of:
\*   S -> T0 A | a      a binary and a unit alternative on the same terminal
\*   A -> b | ε         a unit alternative and ε
\*   T0 -> a            a terminal helper
\*   B -> T0 S | "b"    a quoted unit alternative
\*   TA -> a | ε        a left-hand side that merely starts with T
\*   A -> T1 B          a helper that may be undefined
\*   B -> a             a unit alternative
\*   # CNF              a comment
\*   Start: S           a header, which has no arrow
RulePool ==
    {
      <<"#", " ", "C", "N", "F">>,
      <<"S", "t", "a", "r", "t", ":", " ", "S">>,
      <<"S", " ", "-", ">", " ", "T", "0", " ", "A", " ", "|", " ", "a">>,
      <<"A", " ", "-", ">", " ", "b", " ", "|", " ", "ε">>,
      <<"T", "0", " ", "-", ">", " ", "a">>,
      <<"B", " ", "-", ">", " ", "T", "0", " ", "S", " ", "|", " ", "\"", "b", "\"">>,
      <<"T", "A", " ", "-", ">", " ", "a", " ", "|", " ", "ε">>,
      <<"A", " ", "-", ">", " ", "T", "1", " ", "B">>,
      <<"B", " ", "-", ">", " ", "a">> }

\* the grammar files: up to MaxRules rule lines, each ended by a newline
GrammarTexts == {Unlines(v) : v \in SeqsUpTo(RulePool, MaxRules)}

\* a grammar file has been written by hand; load_cnf_grammar is about to be
\* called on it with a fresh GrammarDFA
InitLoad ==
    /\ pc = "written"
    /\ samples = <<>>
    /\ pta = ensure_root
    /\ dfa = DFA0
    /\ min = DFA0
    /\ min2 = DFA0
    /\ exported = DFA0
    /\ grammar \in GrammarTexts
    /\ gdfa = GrammarDFA0
    /\ SimIdle /\ EvalIdle /\ QuoteIdle /\ ValidateIdle /\ StandaloneIdle

\* the standalone simulator loads the grammar file the core has loaded
LoadCnfStandalone ==
    /\ pc = "loaded"
    /\ \E parsed \in {StandaloneParseLines(Parsed0, getlines(grammar))} :
          \E order \in IterationOrders(parsed.nonterminals) :
              sgdfa' = StandaloneBuildStates(parsed, GrammarDFA0, order)
    /\ pc' = "both"
    /\ UNCHANGED <<samples, pta, dfa, min, min2, exported, grammar, gdfa>>
    /\ UNCHANGED simVars
    /\ UNCHANGED evalVars
    /\ UNCHANGED quoteVars
    /\ UNCHANGED validateVars

NextLoad ==
    \/ LoadCnf
    \/ LoadCnfStandalone

SpecLoad == InitLoad /\ [][NextLoad]_vars

\* the tokens of the sequences given to validate_pda_sequence: the push token,
\* the pop token, another connection state, and a token of another feature
SeqTokens == {PushToken, PopToken, <<"s", "t", "a", "t", "e", "=", "S", "1">>, <<"p", "r", "o", "t", "o", "=", "t", "c", "p">>}

TokenSeqs == SeqsUpTo(SeqTokens, MaxTokens)

\* validate_pda_sequence is about to be called on vseq
InitValidate ==
    /\ InitPipe /\ SimIdle /\ EvalIdle /\ QuoteIdle /\ StandaloneIdle
    /\ vseq \in TokenSeqs
    /\ presult = PDAResult(TRUE, <<>>)
    /\ vpc = "call"

\* presult = validate_pda_sequence(vseq)
Validate ==
    /\ vpc = "call"
    /\ presult' = validate_pda_sequence(vseq)
    /\ vpc' = "done"
    /\ UNCHANGED vseq
    /\ PipeIdle
    /\ UNCHANGED simVars
    /\ UNCHANGED evalVars
    /\ UNCHANGED quoteVars
    /\ UNCHANGED standaloneVars

NextValidate ==
    \/ Validate

SpecValidate == InitValidate /\ [][NextValidate]_vars

\* the state names and the symbol given to the member functions of GrammarDFA
BuilderNames == {<<"S">>, <<"A">>, <<"B">>}

BuilderSymbols == {<<"a">>}

\* a default-constructed GrammarDFA, about to receive calls of its member
\* functions in any order and number
InitBuilder ==
    /\ pc = "calls"
    /\ samples = <<>>
    /\ pta = ensure_root
    /\ dfa = DFA0
    /\ min = DFA0
    /\ min2 = DFA0
    /\ exported = DFA0
    /\ grammar = <<>>
    /\ gdfa = GrammarDFA0
    /\ SimIdle /\ EvalIdle /\ QuoteIdle /\ ValidateIdle /\ StandaloneIdle

\* gdfa.add_state_if_missing(name)
AddStateIfMissing ==
    /\ pc = "calls"
    /\ \E name \in BuilderNames : gdfa' = add_state_if_missing(gdfa, name)
    /\ UNCHANGED <<pc, samples, pta, dfa, min, min2, exported, grammar>>
    /\ UNCHANGED simVars
    /\ UNCHANGED evalVars
    /\ UNCHANGED quoteVars
    /\ UNCHANGED validateVars
    /\ UNCHANGED standaloneVars

\* gdfa.set_start(name)
SetStart ==
    /\ pc = "calls"
    /\ \E name \in BuilderNames : gdfa' = set_start(gdfa, name)
    /\ UNCHANGED <<pc, samples, pta, dfa, min, min2, exported, grammar>>
    /\ UNCHANGED simVars
    /\ UNCHANGED evalVars
    /\ UNCHANGED quoteVars
    /\ UNCHANGED validateVars
    /\ UNCHANGED standaloneVars

\* gdfa.set_accepting(name)
SetAccepting ==
    /\ pc = "calls"
    /\ \E name \in BuilderNames : gdfa' = set_accepting(gdfa, name)
    /\ UNCHANGED <<pc, samples, pta, dfa, min, min2, exported, grammar>>
    /\ UNCHANGED simVars
    /\ UNCHANGED evalVars
    /\ UNCHANGED quoteVars
    /\ UNCHANGED validateVars
    /\ UNCHANGED standaloneVars

\* gdfa.add_transition(from, on, to)
AddTransition ==
    /\ pc = "calls"
    /\ \E from \in BuilderNames, on \in BuilderSymbols, to \in BuilderNames :
          gdfa' = add_transition(gdfa, from, on, to)
    /\ UNCHANGED <<pc, samples, pta, dfa, min, min2, exported, grammar>>
    /\ UNCHANGED simVars
    /\ UNCHANGED evalVars
    /\ UNCHANGED quoteVars
    /\ UNCHANGED validateVars
    /\ UNCHANGED standaloneVars

NextBuilder ==
    \/ AddStateIfMissing
    \/ SetStart
    \/ SetAccepting
    \/ AddTransition

SpecBuilder == InitBuilder /\ [][NextBuilder]_vars

-----------------------------------------------------------------------------
(* Properties of the pipeline, checked under Spec *)

\* the sequences over the alphabet of a DFA, up to the bound
AlphabetWords(d) == SeqsUpTo(Range(d.alphabet_), MaxWordLen)

\* the pipeline positions at which the named object holds its final value
HasDfa == pc \in {"dfa", "min", "min2", "exported", "loaded"}
HasMin == pc \in {"min", "min2", "exported", "loaded"}

\* how many samples have the symbol sequence w and the given label
RECURSIVE CountSamples(_, _, _)
CountSamples(smpls, w, label) ==
    IF smpls = <<>> THEN 0
    ELSE (IF Head(smpls).symbols = w /\ Head(smpls).label = label THEN 1 ELSE 0)
         + CountSamples(Tail(smpls), w, label)

\* C1: after build -> from_pta -> minimize -> to_chomsky -> load_cnf_grammar,
\* the loaded grammar accepts a sequence over the DFA's alphabet exactly when
\* the minimized DFA classifies it true
C1_RoundTrip ==
    (pc = "loaded" /\ exported = min) =>
        \A w \in AlphabetWords(exported) :
            classify_with_reason(gdfa, w)[1] = classify(exported, w)

\* C2: the minimized DFA classifies every sequence over the alphabet as the
\* DFA it was computed from does
C2_MinimizePreservesLanguage ==
    HasMin => \A w \in AlphabetWords(dfa) : classify(min, w) = classify(dfa, w)

\* C2 witness: minimization merged states of a DFA that accepts something
C2_Witness ==
    /\ pc = "min"
    /\ Len(min.states_) < Len(dfa.states_)
    /\ \E w \in AlphabetWords(dfa) : classify(dfa, w)

\* C3: after build -> from_pta -> minimize, a sequence is classified true
\* exactly when strictly more positive than negative samples have exactly
\* that sequence; ties, unseen sequences and sequences with an unknown
\* symbol are classified false
C3_MajorityVote ==
    HasMin => \A w \in Words :
        classify(min, w) =
            (CountSamples(samples, w, TRUE) > CountSamples(samples, w, FALSE))

\* C3 witness: a sequence seen once with each label is a tie and is
\* rejected, as are its extension by an unknown symbol and the unseen empty
\* sequence
C3_Witness ==
    /\ pc = "min"
    /\ \E w \in Words :
          /\ CountSamples(samples, w, TRUE) = 1
          /\ CountSamples(samples, w, FALSE) = 1
          /\ ~classify(min, w)
          /\ ~classify(min, Append(w, UnseenSymbol))
    /\ CountSamples(samples, <<>>, TRUE) = 0
    /\ ~classify(min, <<>>)

\* the states of d reachable from its start state
RECURSIVE ReachableFrom(_, _)
ReachableFrom(d, seen) ==
    LET more == seen \cup UNION {Range(At(d.states_, i).transitions) : i \in seen}
    IN IF more = seen THEN seen ELSE ReachableFrom(d, more)

Reachable(d) == ReachableFrom(d, {d.start_state_})

\* states i and j of d accept the same sequences (up to the bound)
SameLanguage(d, i, j) ==
    \A w \in AlphabetWords(d) : ClassifyFrom(d, i, w) = ClassifyFrom(d, j, w)

\* C4: the minimized DFA is minimal: every state is reachable from the start
\* state and no two distinct states accept the same set of sequences
C4_Minimal ==
    HasMin =>
        /\ Reachable(min) = 0..(Len(min.states_) - 1)
        /\ \A i, j \in 0..(Len(min.states_) - 1) :
              i /= j => ~SameLanguage(min, i, j)

\* C4 witness: a DFA with equivalent states was reduced to one with at
\* least three states
C4_Witness ==
    /\ pc = "min"
    /\ Len(min.states_) >= 3
    /\ Len(min.states_) < Len(dfa.states_)

\* C5: minimizing the minimized DFA again keeps the number of states and
\* the classification of every sequence
C5_Idempotent ==
    (pc \in {"min2", "exported", "loaded"}) =>
        /\ Len(min2.states_) = Len(min.states_)
        /\ \A w \in Words : classify(min2, w) = classify(min, w)

\* C5 witness: the second minimization ran on a DFA of at least three
\* states that accepts something
C5_Witness ==
    /\ pc = "min2"
    /\ Len(min.states_) >= 3
    /\ \E w \in Words : classify(min2, w)

\* every state of d has a transition on every alphabet symbol, to a valid state
Complete(d) ==
    \A k \in 1..Len(d.states_) : \A j \in 1..Len(d.alphabet_) :
        /\ d.alphabet_[j] \in DOMAIN d.states_[k].transitions
        /\ d.states_[k].transitions[d.alphabet_[j]] \in 0..(Len(d.states_) - 1)

\* C6: the DFA returned by from_pta and the DFA returned by minimize are
\* complete: every state has a transition on every alphabet symbol and every
\* target is a valid state index
C6_Complete ==
    /\ HasDfa => Complete(dfa)
    /\ HasMin => Complete(min)

\* C6 witness: a minimized DFA over a non-empty alphabet whose source needed
\* a sink
C6_Witness ==
    /\ pc = "min"
    /\ min.alphabet_ /= <<>>
    /\ dfa.sink_state_ < Len(dfa.states_)
    /\ Len(min.states_) >= 2

\* d has a sink state
HasSink(d) == d.sink_state_ < Len(d.states_)

\* the sink of d is non-accepting and every alphabet symbol maps it to itself
SinkOk(d) ==
    /\ ~At(d.states_, d.sink_state_).accepting
    /\ \A j \in 1..Len(d.alphabet_) :
          /\ d.alphabet_[j] \in DOMAIN At(d.states_, d.sink_state_).transitions
          /\ At(d.states_, d.sink_state_).transitions[d.alphabet_[j]] = d.sink_state_

\* C7: whenever the DFA returned by from_pta or by minimize has a sink, the
\* sink is non-accepting and loops to itself on every alphabet symbol
C7_SinkInvariant ==
    /\ (HasDfa /\ HasSink(dfa)) => SinkOk(dfa)
    /\ (HasMin /\ HasSink(min)) => SinkOk(min)

\* C7 witness: the minimized DFA has a sink whose block also holds another
\* state of the unminimized DFA
C7_Witness ==
    /\ pc = "min"
    /\ HasSink(min)
    /\ min.sink_state_ /= dfa.sink_state_
    /\ At(min.states_, min.sink_state_).negative_count >= 2

\* the tree of a PTA up to node ids: for every node its path from the root
\* with its counts
RECURSIVE PathsFrom(_, _, _)
PathsFrom(nodes, i, path) ==
    {<<path, At(nodes, i).positive_count, At(nodes, i).negative_count>>}
    \cup UNION {PathsFrom(nodes, At(nodes, i).transitions[x], Append(path, x)) :
                    x \in DOMAIN At(nodes, i).transitions}

Tree(p) == PathsFrom(p.nodes_, p.start_state_, <<>>)

\* the orderings of a sample list
RECURSIVE SampleOrders(_)
SampleOrders(v) ==
    IF v = <<>> THEN {<<>>}
    ELSE UNION {{<<v[k]>> \o rest :
                    rest \in SampleOrders(SubSeq(v, 1, k - 1)
                                          \o SubSeq(v, k + 1, Len(v)))} :
                k \in 1..Len(v)}

\* C8: building from any permutation of the samples gives the same tree up
\* to node ids: the same root-to-node paths with the same counts
C8_OrderIndependent ==
    pc = "built" =>
        \A perm \in SampleOrders(samples) : Tree(PTAbuild(perm)) = Tree(pta)

\* C8 witness: two samples whose other order numbers the nodes differently
C8_Witness ==
    /\ pc = "built"
    /\ \E perm \in SampleOrders(samples) : PTAbuild(perm) /= pta

\* the non-empty prefixes of the sequences of a sample list
Prefixes(smpls) ==
    UNION {{SubSeq(smpls[k].symbols, 1, n) : n \in 1..Len(smpls[k].symbols)} :
              k \in 1..Len(smpls)}

\* the edges of a node list: <<source, symbol, target>>
Edges(nodes) ==
    UNION {{<<i, x, At(nodes, i).transitions[x]>> :
               x \in DOMAIN At(nodes, i).transitions} :
              i \in 0..(Len(nodes) - 1)}

\* the nodes reached from node 0 along the first k symbols of path
RECURSIVE ReachedBy(_, _, _)
ReachedBy(nodes, path, k) ==
    IF k = 0 THEN {0}
    ELSE {At(nodes, b).transitions[path[k]] :
             b \in {x \in ReachedBy(nodes, path, k - 1) :
                      path[k] \in DOMAIN At(nodes, x).transitions}}

\* C19: after build the root is node 0, the node ids are 0..node_count-1
\* with nodes[i].id = i, every non-root node is the target of exactly one
\* edge, and the nodes correspond one-to-one to the distinct prefixes of
\* the sample sequences (the root to the empty one), so that node_count is
\* 1 + the number of distinct non-empty prefixes
C19_PrefixTree ==
    pc = "built" =>
        LET nodes == pta.nodes_
            n == Len(nodes)
            P == Prefixes(samples) \cup {<<>>}
        IN /\ pta.start_state_ = 0
           /\ n >= 1
           /\ \A i \in 0..(n - 1) : At(nodes, i).id = i
           /\ \A e \in Edges(nodes) : e[3] \in 1..(n - 1)
           /\ \A j \in 1..(n - 1) :
                 Cardinality({e \in Edges(nodes) : e[3] = j}) = 1
           /\ n = 1 + Cardinality(Prefixes(samples))
           /\ \A q \in P : Cardinality(ReachedBy(nodes, q, Len(q))) = 1
           /\ \A q, r \in P :
                 q /= r => ReachedBy(nodes, q, Len(q)) /= ReachedBy(nodes, r, Len(r))

\* C19 witness: two samples that share their first symbol and then differ,
\* so that the node of the common prefix is shared
C19_Witness ==
    /\ pc = "built"
    /\ Len(samples) = 2
    /\ Len(samples[1].symbols) >= 2 /\ Len(samples[2].symbols) >= 2
    /\ samples[1].symbols[1] = samples[2].symbols[1]
    /\ samples[1].symbols[2] /= samples[2].symbols[2]
    /\ Len(pta.nodes_) < 1 + Len(samples[1].symbols) + Len(samples[2].symbols)

\* the number of samples of a list with the given sequence and label
SamplesWith(smpls, seq, label) ==
    Cardinality({k \in 1..Len(smpls) :
                    smpls[k].symbols = seq /\ smpls[k].label = label})

\* the sequence that leads from the root to node i
PathTo(nodes, i) ==
    CHOOSE q \in TrainSeqs : i \in ReachedBy(nodes, q, Len(q))

RECURSIVE SumCounts(_, _)
SumCounts(nodes, k) ==
    IF k = 0 THEN 0
    ELSE nodes[k].positive_count + nodes[k].negative_count
         + SumCounts(nodes, k - 1)

\* C20: after build, also on a PTA that was built before, every node's
\* positive (negative) count is the number of positive (negative) samples
\* whose sequence is the path from the root to the node; the root counts
\* the empty sequences; the counts add up to the number of samples
C20_Counts ==
    pc = "built" =>
        LET nodes == pta.nodes_
        IN /\ \A i \in 0..(Len(nodes) - 1) :
                 /\ At(nodes, i).positive_count
                       = SamplesWith(samples, PathTo(nodes, i), TRUE)
                 /\ At(nodes, i).negative_count
                       = SamplesWith(samples, PathTo(nodes, i), FALSE)
           /\ At(nodes, 0).positive_count + At(nodes, 0).negative_count
                 = Cardinality({k \in 1..Len(samples) : samples[k].symbols = <<>>})
           /\ SumCounts(nodes, Len(nodes)) = Len(samples)

\* C20 for the second build taken as a step: what build leaves depends on
\* the samples given to it alone, not on the tree it was called on
C20_RebuildDiscards ==
    [][pc = "built" /\ pc' = "built" => pta' = PTAbuild(samples')]_vars

\* C20 witness: two samples with the same sequence and different labels are
\* counted at the same node
C20_Witness ==
    /\ pc = "built"
    /\ Len(samples) = 2
    /\ samples[1].symbols = samples[2].symbols
    /\ samples[1].symbols /= <<>>
    /\ samples[1].label /= samples[2].label
    /\ \E i \in 1..(Len(pta.nodes_) - 1) :
          /\ At(pta.nodes_, i).positive_count = 1
          /\ At(pta.nodes_, i).negative_count = 1

\* the sum of f[x] over the finite set S
RECURSIVE SumOfSet(_, _)
SumOfSet(f, S) ==
    IF S = {} THEN 0
    ELSE LET x == CHOOSE y \in S : TRUE
         IN f[x] + SumOfSet(f, S \ {x})

\* the positive or negative counts of the states of d, by 0-based index
CountsOf(d, pos) ==
    [k \in 0..(Len(d.states_) - 1) |->
        IF pos THEN At(d.states_, k).positive_count
        ELSE At(d.states_, k).negative_count]

\* the 0-based indices of the blocks that hold state q
BlocksOf(parts, q) == {b \in 0..(Len(parts) - 1) : q \in Range(At(parts, b))}

\* C21: every final block becomes one state of the minimized DFA with the
\* summed counts of its members (so the totals over all states are kept)
\* and the transitions of its first member with the targets replaced by
\* their blocks; the start is the block of the original start, the sink the
\* block of the original sink, and there is no sink if there was none
C21_BlockStates ==
    pc = "min" =>
        LET parts == FinalPartition(dfa).partitions
            all == 0..(Len(dfa.states_) - 1)
        IN /\ Len(min.states_) = Len(parts)
           /\ \A q \in all : Cardinality(BlocksOf(parts, q)) = 1
           /\ \A b \in 0..(Len(parts) - 1) :
                 LET members == Range(At(parts, b))
                     first == At(dfa.states_, Head(At(parts, b))).transitions
                     st == At(min.states_, b)
                 IN /\ members /= {} /\ Cardinality(members) = Len(At(parts, b))
                    /\ st.positive_count = SumOfSet(CountsOf(dfa, TRUE), members)
                    /\ st.negative_count = SumOfSet(CountsOf(dfa, FALSE), members)
                    /\ DOMAIN st.transitions = DOMAIN first
                    /\ \A x \in DOMAIN first :
                          BlocksOf(parts, first[x]) = {st.transitions[x]}
           /\ SumOfSet(CountsOf(min, TRUE), 0..(Len(min.states_) - 1))
                 = SumOfSet(CountsOf(dfa, TRUE), all)
           /\ SumOfSet(CountsOf(min, FALSE), 0..(Len(min.states_) - 1))
                 = SumOfSet(CountsOf(dfa, FALSE), all)
           /\ BlocksOf(parts, dfa.start_state_) = {min.start_state_}
           /\ IF dfa.sink_state_ < Len(dfa.states_)
              THEN BlocksOf(parts, dfa.sink_state_) = {min.sink_state_}
              ELSE ~(min.sink_state_ < Len(min.states_))

\* C21 witness: a block of two states with non-zero counts is merged into a
\* state that carries their sum
C21_Witness ==
    /\ pc = "min"
    /\ \E b \in 0..(Len(min.states_) - 1) :
          LET block == At(FinalPartition(dfa).partitions, b)
          IN /\ Len(block) >= 2
             /\ \A k \in 1..Len(block) :
                   At(dfa.states_, block[k]).positive_count > 0
             /\ At(min.states_, b).positive_count >= 2

\* the pieces of s between the occurrences of sep
RECURSIVE SplitAt(_, _)
SplitAt(s, sep) ==
    LET k == find(s, sep)
    IN IF k = npos THEN <<s>>
       ELSE <<SubstrTo(s, k)>> \o SplitAt(SubstrFrom(s, k + Len(sep)), sep)

\* the alternatives of the production lines "  name -> alt | alt ..." of text
AlternativesOf(text, name) ==
    LET head == <<" ", " ">> \o name \o <<" ", "-", ">", " ">>
        lines == SelectSeq(getlines(text), LAMBDA l : IsAt(l, head, 0))
    IN UNION {Range(SplitAt(SubstrFrom(lines[k], Len(head)), <<" ", "|", " ">>)) :
                k \in 1..Len(lines)}

\* the literal text "S -> ε"
SEpsilonText == <<"S", " ", "-", ">", " ", "ε">>

StartAccepts(d) == At(d.states_, d.start_state_).accepting

\* C13 as stated: the string "S -> ε" occurs in the text of to_chomsky
\* exactly when the start state is accepting
C13_EpsilonString ==
    pc = "exported" =>
        ((find(grammar, SEpsilonText) /= npos) <=> StartAccepts(exported))

\* C13 amended: the production of S has the alternative ε exactly when the
\* start state is accepting; the literal text "S -> ε" occurs exactly when in
\* addition the start state has no outgoing transition, as ε is then the
\* only alternative (otherwise it is the last one, after " | ")
C13_EpsilonAlternative ==
    pc = "exported" =>
        /\ (<<"ε">> \in AlternativesOf(grammar, <<"S">>)) <=> StartAccepts(exported)
        /\ (find(grammar, SEpsilonText) /= npos) <=>
              (/\ StartAccepts(exported)
               /\ DOMAIN At(exported.states_, exported.start_state_).transitions = {})
        /\ \A k \in 0..(Len(exported.states_) - 1) :
              k /= exported.start_state_ =>
                  <<"ε">> \notin AlternativesOf(grammar,
                      name_for_state(StateNames(0, Len(exported.states_),
                                                exported.start_state_, 0), k))

\* C13 witness: an accepting start state with outgoing transitions, so that
\* ε is an alternative of S but not the first one
C13_Witness ==
    /\ pc = "exported"
    /\ StartAccepts(exported)
    /\ DOMAIN At(exported.states_, exported.start_state_).transitions /= {}
    /\ <<"ε">> \in AlternativesOf(grammar, <<"S">>)
    /\ find(grammar, SEpsilonText) = npos

\* the states of g in which the first k symbols of seq can leave it when
\* read from the start state, every one along a transition: one state, or
\* none when a transition is missing
RECURSIVE After(_, _, _)
After(g, seq, k) ==
    IF k = 0 THEN {g.start}
    ELSE {At(g.trans, b)[seq[k]] :
            b \in {x \in After(g, seq, k - 1) : seq[k] \in DOMAIN At(g.trans, x)}}

\* the three messages of a rejection and the one of acceptance, as texts
NoTransitionText(sym, name, i) ==
    <<"n", "o", " ", "t", "r", "a", "n", "s", "i", "t", "i", "o", "n", " ",
      "o", "n", " ", "'">> \o sym
    \o <<"'", " ", "f", "r", "o", "m", " ", "s", "t", "a", "t", "e", " ", "'">>
    \o name
    \o <<"'", " ", "a", "t", " ", "p", "o", "s", "i", "t", "i", "o", "n", " ">>
    \o <<Digits[i + 1]>>

NonAcceptingText(name) ==
    <<"e", "n", "d", "e", "d", " ", "i", "n", " ", "n", "o", "n", "-", "a",
      "c", "c", "e", "p", "t", "i", "n", "g", " ", "s", "t", "a", "t", "e",
      " ", "'">> \o name \o <<"'">>

\* r is the outcome the contract of classify_with_reason fixes for seq on g
ContractOutcome(g, seq, r) ==
    IF g.names = <<>>
    THEN r = <<FALSE, <<"e", "m", "p", "t", "y", " ", "g", "r", "a", "m", "m",
                        "a", "r">> >>
    ELSE \/ \E i \in 0..(Len(seq) - 1) : \E c \in After(g, seq, i) :
               /\ seq[i + 1] \notin DOMAIN At(g.trans, c)
               /\ r = <<FALSE, NoTransitionText(seq[i + 1], At(g.names, c), i)>>
         \/ \E c \in After(g, seq, Len(seq)) :
               /\ ~At(g.accepting, c)
               /\ r = <<FALSE, NonAcceptingText(At(g.names, c))>>
         \/ \E c \in After(g, seq, Len(seq)) :
               /\ At(g.accepting, c)
               /\ r = <<TRUE, <<"a", "c", "c", "e", "p", "t", "e", "d">> >>

\* C14: classify_with_reason returns (false, "empty grammar") on a grammar
\* without states; otherwise (false, no transition on '<s>' from state
\* '<name>' at position <i>) for the first index i whose symbol has no
\* transition from the state reached, (false, ended in non-accepting state
\* '<name>') or (true, accepted) after the last symbol
C14_ClassifyWithReason ==
    \A w \in Words : ContractOutcome(gdfa, w, classify_with_reason(gdfa, w))

\* C14 witness: a loaded grammar on which one sequence is accepted, one ends
\* in a non-accepting state and one has no transition at a position after
\* the first
C14_Witness ==
    /\ pc = "loaded"
    /\ \E w \in Words : classify_with_reason(gdfa, w)[1]
    /\ \E w \in Words : \E c \in 0..(Len(gdfa.names) - 1) :
          classify_with_reason(gdfa, w) = <<FALSE, NonAcceptingText(At(gdfa.names, c))>>
    /\ \E w \in Words : \E c \in 0..(Len(gdfa.names) - 1) : \E i \in 1..MaxWordLen :
          /\ i < Len(w)
          /\ classify_with_reason(gdfa, w)
                = <<FALSE, NoTransitionText(w[i + 1], At(gdfa.names, c), i)>>

\* the state of d after the first k symbols of seq, as a set of at most one
\* state: a symbol without a transition leads to the sink when d has one,
\* and without a sink the run is over (the empty set)
RECURSIVE StateAfter(_, _, _)
StateAfter(d, seq, k) ==
    IF k = 0 THEN {d.start_state_}
    ELSE {IF seq[k] \in DOMAIN At(d.states_, b).transitions
          THEN At(d.states_, b).transitions[seq[k]]
          ELSE d.sink_state_ :
             b \in {x \in StateAfter(d, seq, k - 1) :
                      \/ seq[k] \in DOMAIN At(d.states_, x).transitions
                      \/ d.sink_state_ < Len(d.states_)}}

\* what the contract of classify fixes for seq on d
ContractClassify(d, seq) ==
    /\ d.states_ /= <<>>
    /\ \E b \in StateAfter(d, seq, Len(seq)) : At(d.states_, b).accepting

\* C15: classify returns the accepting flag of the start state on the empty
\* sequence; a symbol without a transition leads to the sink when there is
\* one and ends the run with false when there is none; after the last symbol
\* the accepting flag of the current state is returned (false on a DFA
\* without states)
C15_ClassifyTotal ==
    \A d \in {dfa, min} : \A w \in Words :
        /\ classify(d, w) = ContractClassify(d, w)
        /\ w = <<>> /\ d.states_ /= <<>> =>
              classify(d, w) = At(d.states_, d.start_state_).accepting

\* C15 witness: a minimized DFA with a sink accepts a sequence and rejects
\* it once an unknown symbol is put in front of it
C15_Witness ==
    /\ pc = "min"
    /\ min.sink_state_ < Len(min.states_)
    /\ \E w \in Words :
          /\ Len(w) < MaxWordLen
          /\ classify(min, w)
          /\ ~classify(min, <<UnseenSymbol>> \o w)

\* C15 witness of the other case: a DFA without a sink (empty alphabet)
\* accepts the empty sequence and rejects every other one at once
C15_NoSinkReached ==
    /\ pc = "min"
    /\ ~(min.sink_state_ < Len(min.states_))
    /\ classify(min, <<>>)
    /\ \A w \in Words \ {<<>>} : ~classify(min, w)

\* the alternatives of the production lines "  name -> alt | alt ..." among
\* lines
AlternativesIn(lines, name) ==
    LET head == <<" ", " ">> \o name \o <<" ", "-", ">", " ">>
        own == SelectSeq(lines, LAMBDA l : IsAt(l, head, 0))
    IN UNION {Range(SplitAt(SubstrFrom(own[k], Len(head)), <<" ", "|", " ">>)) :
                k \in 1..Len(own)}

\* the helper nonterminal of the alphabet symbol with 0-based index i < 10
HelperName(i) ==
    <<"T", <<"0", "1", "2", "3", "4", "5", "6", "7", "8", "9">>[i + 1]>>

\* C18: for every transition of a state X on the alphabet symbol a_i to a
\* state Y the production of X has the binary alternative "Ti <name of Y>";
\* it has the terminal alternative a_i exactly when X has a transition on
\* a_i to an accepting state; every alphabet symbol has its helper
\* production "Ti -> a_i"
C18_EveryTransition ==
    pc = "exported" =>
        LET d == exported
            lines == getlines(grammar)
            names == StateNames(0, Len(d.states_), d.start_state_, 0)
        IN /\ \A i \in 1..Len(d.alphabet_) :
                  AlternativesIn(lines, HelperName(i - 1)) = {d.alphabet_[i]}
           /\ \A X \in 0..(Len(d.states_) - 1) :
                  LET tr == At(d.states_, X).transitions
                      alts == AlternativesIn(lines, name_for_state(names, X))
                  IN /\ DOMAIN tr \subseteq Range(d.alphabet_)
                     /\ \A i \in 1..Len(d.alphabet_) :
                           LET a == d.alphabet_[i]
                           IN /\ a \in DOMAIN tr =>
                                    (HelperName(i - 1) \o <<" ">>
                                       \o name_for_state(names, tr[a])) \in alts
                              /\ (a \in alts) <=>
                                    (/\ a \in DOMAIN tr
                                     /\ At(d.states_, tr[a]).accepting)

\* C18 witness: an exported DFA with a state that has one transition to an
\* accepting state and one to a non-accepting state
C18_Witness ==
    /\ pc = "exported"
    /\ Len(exported.alphabet_) = 2
    /\ \E X \in 0..(Len(exported.states_) - 1) :
          LET tr == At(exported.states_, X).transitions
          IN \E a, b \in DOMAIN tr :
                /\ At(exported.states_, tr[a]).accepting
                /\ ~At(exported.states_, tr[b]).accepting
                /\ a \in AlternativesOf(grammar, name_for_state(
                       StateNames(0, Len(exported.states_),
                                  exported.start_state_, 0), X))

-----------------------------------------------------------------------------
(* Properties of simulate_pda, checked under SpecPDA *)

\* the index of the state of p called name (names are unique)
StateIndex(p, name) == CHOOSE i \in 0..(Len(p.states) - 1) : At(p.states, i).name = name

\* transition t of p is enabled in the configuration (idx, stack) and taking
\* it is what step records: the symbol read, the target and the stack after
Takes(p, inp, t, idx, stack, step) ==
    LET reads == t.input_symbol /= "ε"
        popped == IF t.pop_symbol = "ε" THEN stack
                  ELSE SubSeq(stack, 1, Len(stack) - 1)
    IN /\ reads => (idx < Len(inp) /\ At(inp, idx) = t.input_symbol)
       /\ t.pop_symbol /= "ε" => (stack /= <<>> /\ stack[Len(stack)] = t.pop_symbol)
       /\ step.symbol = (IF reads THEN t.input_symbol ELSE "ε")
       /\ step.next_state = At(p.states, t.next_state).name
       /\ step.stack_after = popped \o Reverse(t.push_symbols)

\* replaying steps from the configuration (state, idx, stack) uses enabled
\* transitions only and ends with all input consumed in an accepting state
RECURSIVE Replays(_, _, _, _, _, _)
Replays(p, inp, steps, state, idx, stack) ==
    IF steps = <<>>
    THEN idx = Len(inp) /\ At(p.states, state).accepting
    ELSE LET step == Head(steps)
             trs == At(p.states, state).transitions
         IN /\ step.current_state = At(p.states, state).name
            /\ \E k \in 1..Len(trs) : Takes(p, inp, trs[k], idx, stack, step)
            /\ \E i \in 0..(Len(p.states) - 1) : At(p.states, i).name = step.next_state
            /\ Replays(p, inp, Tail(steps), StateIndex(p, step.next_state),
                       IF step.symbol = "ε" THEN idx ELSE idx + 1,
                       step.stack_after)

\* C9: when simulate_pda returns ok, replaying the returned steps from
\* (start state, input index 0, empty stack) uses only enabled transitions,
\* consumes the whole input and ends in an accepting state
C9_AcceptedTraceIsRun ==
    (spc = "done" /\ result.ok) =>
        Replays(pda, input, result.steps, pda.start, 0, <<>>)

\* C9 witness: an accepted input of two symbols whose run pushes, pops and
\* changes state
C9_Witness ==
    /\ spc = "done"
    /\ result.ok
    /\ Len(input) = 2
    /\ \E k \in 1..Len(result.steps) : result.steps[k].op = "POP"
    /\ \E k \in 1..Len(result.steps) : result.steps[k].op = "PUSH"
    /\ \E k \in 1..Len(result.steps) :
          result.steps[k].current_state /= result.steps[k].next_state

\* C10: simulate_pda dequeues at most the step budget of configurations
C10_WithinBudget == dequeued <= max_steps

\* the number of input symbols a trace consumes
RECURSIVE ConsumedBy(_)
ConsumedBy(steps) ==
    IF steps = <<>> THEN 0
    ELSE (IF Head(steps).symbol = "ε" THEN 0 ELSE 1) + ConsumedBy(Tail(steps))

\* the largest input index among the configurations v
MaxInputIdx(v) ==
    CHOOSE m \in {v[k].input_idx : k \in 1..Len(v)} :
        \A k \in 1..Len(v) : v[k].input_idx <= m

\* the position in v of the first configuration with input index m
FirstAt(v, m) ==
    CHOOSE k \in 1..Len(v) :
        v[k].input_idx = m /\ \A j \in 1..(k - 1) : v[j].input_idx /= m

\* C11: when simulate_pda returns without an accepting configuration (queue
\* empty or step cap exceeded), ok is false and the returned trace is that of
\* the first dequeued configuration with the largest input index reached; it
\* consumes that many, hence at most |input|, symbols
C11_BestProgressTrace ==
    (spc = "done" /\ ~result.ok) =>
        /\ visited /= <<>>
        /\ result.steps = visited[FirstAt(visited, MaxInputIdx(visited))].trace
        /\ ConsumedBy(result.steps) = MaxInputIdx(visited)
        /\ ConsumedBy(result.steps) <= Len(input)

\* C11 witness: the step cap was exceeded after input had been consumed, and
\* a later configuration reached the same largest input index by another trace
C11_Witness ==
    /\ spc = "done"
    /\ ~result.ok
    /\ queue /= <<>>
    /\ MaxInputIdx(visited) >= 1
    /\ \E k \in 1..Len(visited) :
          /\ visited[k].input_idx = MaxInputIdx(visited)
          /\ visited[k].trace /= result.steps

\* simulate_pda as a function of its arguments: the loop run from the queue q
\* with the transitions of every state taken in declaration order
RECURSIVE simulate_loop(_, _, _, _, _, _)
simulate_loop(p, inp, q, count, consumed, best) ==
    IF q = <<>> \/ count > max_steps THEN [ok |-> FALSE, steps |-> best]
    ELSE LET current == Head(q)
             better == current.input_idx > consumed
         IN IF IsAccepting(p, current, inp)
            THEN [ok |-> TRUE, steps |-> current.trace]
            ELSE simulate_loop(
                     p, inp,
                     Tail(q) \o Successors(p, At(p.states, current.state_idx).transitions,
                                           current, inp),
                     count + 1,
                     IF better THEN current.input_idx ELSE consumed,
                     IF better THEN current.trace ELSE best)

simulate_pda(p, inp) ==
    simulate_loop(p, inp, <<SimulationState(p.start, 0, <<>>, <<>>)>>, 0, 0, <<>>)

\* C12: a run of simulate_pda returns the ok flag and the trace that any
\* other run on the same PDA and input returns: the result is the one fixed
\* by declaration order of the transitions and FIFO order of the queue
C12_SameResultEveryRun ==
    spc = "done" => result = simulate_pda(pda, input)

\* C12 witness: an accepting run of at least two steps in which some
\* configuration had two enabled transitions
C12_Witness ==
    /\ spc = "done"
    /\ result.ok
    /\ Len(result.steps) >= 2
    /\ \E k \in 1..Len(visited) :
          Len(Successors(pda, At(pda.states, visited[k].state_idx).transitions,
                         visited[k], input)) >= 2


\* transition t can be taken from configuration c on input inp
Enabled(t, c, inp) ==
    /\ \/ t.input_symbol = "ε"
       \/ c.input_idx < Len(inp) /\ inp[c.input_idx + 1] = t.input_symbol
    /\ \/ t.pop_symbol = "ε"
       \/ c.stack /= <<>> /\ c.stack[Len(c.stack)] = t.pop_symbol

\* the stack after taking t: the top is popped when t names a pop symbol,
\* then the push list lies on it with its first symbol uppermost
StackAfter(t, stack) ==
    LET base == IF t.pop_symbol = "ε" THEN Len(stack) ELSE Len(stack) - 1
        n == Len(t.push_symbols)
    IN [k \in 1..(base + n) |->
           IF k <= base THEN stack[k] ELSE t.push_symbols[n - (k - base) + 1]]

\* configuration nx is what taking t from c on inp leaves
TakenFrom(p, t, c, inp, nx) ==
    LET reads == t.input_symbol /= "ε"
        step == nx.trace[Len(nx.trace)]
    IN /\ nx.state_idx = t.next_state
       /\ nx.input_idx = (IF reads THEN c.input_idx + 1 ELSE c.input_idx)
       /\ nx.stack = StackAfter(t, c.stack)
       /\ Len(nx.trace) = Len(c.trace) + 1
       /\ SubSeq(nx.trace, 1, Len(c.trace)) = c.trace
       /\ step.op = (IF t.push_symbols /= <<>> THEN "PUSH"
                     ELSE IF t.pop_symbol /= "ε" THEN "POP" ELSE "NO_OP")
       /\ step.symbol = (IF reads THEN inp[c.input_idx + 1] ELSE "ε")
       /\ step.stack_after = nx.stack
       /\ step.current_state = p.states[c.state_idx + 1].name
       /\ step.next_state = p.states[t.next_state + 1].name

\* C22: an iteration that expands the dequeued configuration appends to the
\* queue, in the order of the state's transitions, one successor for each
\* transition whose input symbol is ε or the next input symbol and whose pop
\* symbol is ε or the top of the stack, and for no other; the successor
\* advances the input index only when input was consumed, pops only when a
\* pop symbol was required, pushes the push list with its first symbol on
\* top, and records op PUSH, POP or NO_OP and the consumed symbol or ε
C22_SuccessorRelation ==
    [][(spc = "loop" /\ spc' = "loop" /\ dequeued' = dequeued + 1) =>
          LET c == Head(queue)
              ts == pda.states[c.state_idx + 1].transitions
              taken == {k \in 1..Len(ts) : Enabled(ts[k], c, input)}
              old == Len(queue) - 1
          IN /\ Len(queue') = old + Cardinality(taken)
             /\ SubSeq(queue', 1, old) = Tail(queue)
             /\ \A k \in taken :
                   TakenFrom(pda, ts[k], c, input,
                             queue'[old + Cardinality({j \in taken : j <= k})])
      ]_vars

\* C22 witness: a configuration enqueued by the transition that pushes Y and
\* Z while consuming a, with Y on top of the stack
C22_Witness ==
    /\ spc = "loop"
    /\ \E k \in 1..Len(queue) :
          /\ queue[k].trace /= <<>>
          /\ queue[k].stack = <<"Z", "Y">>
          /\ Last(queue[k].trace).op = "PUSH"
          /\ Last(queue[k].trace).symbol = "a"
          /\ queue[k].input_idx = 1

\* C22 witness of the refused transitions: a dequeued configuration with a
\* transition that was not taken
C22_RefusedReached ==
    /\ spc = "loop"
    /\ visited /= <<>>
    /\ \E t \in Range(pda.states[Last(visited).state_idx + 1].transitions) :
          ~Enabled(t, Last(visited), input)


\* configuration c has all input consumed in an accepting control state
AcceptingConfiguration(c) ==
    /\ c.input_idx = Len(input)
    /\ pda.states[c.state_idx + 1].accepting

\* C23: simulate_pda returns ok with the trace of the first dequeued
\* configuration that has all input consumed in an accepting control state,
\* whatever its stack, and returns ok for no other reason
C23_AcceptByState ==
    /\ \A k \in 1..(Len(visited) - 1) : ~AcceptingConfiguration(visited[k])
    /\ (visited /= <<>> /\ AcceptingConfiguration(Last(visited))) =>
          (spc = "done" /\ result.ok /\ result.steps = Last(visited).trace)
    /\ (spc = "done" /\ result.ok) =>
          (visited /= <<>> /\ AcceptingConfiguration(Last(visited)))

\* C23 witness: an input accepted with symbols left on the stack
C23_Witness ==
    /\ spc = "done"
    /\ result.ok
    /\ Last(visited).stack /= <<>>
    /\ input /= <<>>

\* C23 witness of the converse: a run that ends without acceptance although
\* a configuration with all input consumed and an empty stack was dequeued
C23_EmptyStackRejected ==
    /\ spc = "done"
    /\ ~result.ok
    /\ \E k \in 1..Len(visited) :
          visited[k].input_idx = Len(input) /\ visited[k].stack = <<>>

-----------------------------------------------------------------------------
(* Properties of evaluate, checked under SpecEval *)

\* the test samples with the given prediction and label
Cell(predicted, actual) ==
    {i \in 1..Len(tests) :
        /\ classify(min, tests[i].symbols) = predicted
        /\ tests[i].label = actual}

TP == Cardinality(Cell(TRUE, TRUE))
TN == Cardinality(Cell(FALSE, FALSE))
FP == Cardinality(Cell(TRUE, FALSE))
FN == Cardinality(Cell(FALSE, TRUE))

\* the double held in field r is the quotient n / d
IsQuotient(r, n, d) == r.den > 0 /\ r.num * d = n * r.den

IsZero(r) == r.den > 0 /\ r.num = 0

\* C16: evaluate counts every test sample in exactly one of TP, TN, FP, FN
\* by prediction against label, and returns accuracy (TP+TN)/N,
\* FPR = FP/(FP+TN) or 0 without negatives, FNR = FN/(FN+TP) or 0 without
\* positives; the empty test list gives all-zero metrics
C16_Metrics ==
    pc = "evaluated" =>
        LET c == CountLoop(min, tests, Counters0)
            N == Len(tests)
        IN /\ c.true_positive = TP /\ c.true_negative = TN
           /\ c.false_positive = FP /\ c.false_negative = FN
           /\ TP + TN + FP + FN = N
           /\ N = 0 =>
                 /\ IsZero(metrics.accuracy)
                 /\ IsZero(metrics.false_positive_rate)
                 /\ IsZero(metrics.false_negative_rate)
           /\ N > 0 =>
                 /\ IsQuotient(metrics.accuracy, TP + TN, N)
                 /\ IF FP + TN = 0 THEN IsZero(metrics.false_positive_rate)
                    ELSE IsQuotient(metrics.false_positive_rate, FP, FP + TN)
                 /\ IF FN + TP = 0 THEN IsZero(metrics.false_negative_rate)
                    ELSE IsQuotient(metrics.false_negative_rate, FN, FN + TP)

\* C16 witness: a test list with a false positive and a false negative, so
\* both rates are positive and the accuracy is zero
C16_Witness ==
    /\ pc = "evaluated"
    /\ FP = 1 /\ FN = 1 /\ Len(tests) = 2
    /\ metrics.false_positive_rate = [num |-> 1, den |-> 1]
    /\ metrics.accuracy = Zero

\* C16 witness of the guarded divisions: tests without negative samples
C16_NoNegatives ==
    /\ pc = "evaluated"
    /\ Len(tests) > 0
    /\ FP + TN = 0
    /\ metrics.false_positive_rate = Zero

-----------------------------------------------------------------------------
(* Properties of the quote lambda, checked under SpecQuote *)

\* s with a backslash put before every double quote and backslash
RECURSIVE Escaped(_)
Escaped(s) ==
    IF s = <<>> THEN <<>>
    ELSE Escaped(SubSeq(s, 1, Len(s) - 1))
         \o (IF Last(s) \in {"\"", "\\"} THEN <<"\\", Last(s)>> ELSE <<Last(s)>>)

Quoted(s) == <<"\"">> \o Escaped(s) \o <<"\"">>

Contains(s, chars) == \E k \in 1..Len(s) : s[k] \in chars

\* C17: a terminal without whitespace, double quote or backslash is emitted
\* as it is; any other terminal is emitted in double quotes with a
\* backslash before every double quote and backslash
C17_TerminalEscaping ==
    qpc = "done" =>
        emitted = IF Contains(terminal, SpaceChars \cup {"\"", "\\"})
                  THEN Quoted(terminal)
                  ELSE terminal

\* what the quote lambda does: only the space character, the double quote
\* and the backslash call for quotes, and the empty terminal is emitted as ""
C17_QuoteAsWritten ==
    qpc = "done" =>
        emitted = IF terminal = <<>> \/ Contains(terminal, {" ", "\"", "\\"})
                  THEN Quoted(terminal)
                  ELSE terminal

\* a terminal with a tab and no space, quote or backslash was emitted
C17_TabReached ==
    /\ qpc = "done"
    /\ Contains(terminal, {"\t"})
    /\ emitted = terminal

-----------------------------------------------------------------------------
(* Properties of load_cnf_grammar, checked under SpecLoad *)

ArrowText == <<" ", "-", ">", " ">>

\* the rule lines "LHS -> ALT | ALT ..." of a grammar text
RuleLines(text) ==
    SelectSeq(SplitAt(text, <<"\n">>), LAMBDA l : find(l, ArrowText) /= npos)

\* s without its leading blanks
RECURSIVE WithoutIndent(_)
WithoutIndent(s) ==
    IF s /= <<>> /\ s[1] = " " THEN WithoutIndent(Tail(s)) ELSE s

LhsOf(l) == WithoutIndent(SubstrTo(l, find(l, ArrowText)))

AltsOf(l) ==
    Range(SplitAt(SubstrFrom(l, find(l, ArrowText) + Len(ArrowText)),
                  <<" ", "|", " ">>))

DigitChars == {"0", "1", "2", "3", "4", "5", "6", "7", "8", "9"}

UpperChars == {"A", "B", "C", "D", "F", "N", "P", "S", "T"}

\* the letter T followed by digits
IsHelperName(name) ==
    /\ Len(name) >= 2
    /\ name[1] = "T"
    /\ \A k \in 2..Len(name) : name[k] \in DigitChars

\* a single token that is a literal terminal: not ε, no blank, not
\* uppercase-prefixed
IsPlainTerminal(alt) ==
    /\ alt /= <<>>
    /\ alt /= <<"ε">>
    /\ \A k \in 1..Len(alt) : alt[k] /= " "
    /\ alt[1] \notin UpperChars

\* the terminal without its enclosing double quotes
Unquoted(alt) ==
    IF Len(alt) >= 2 /\ alt[1] = "\"" /\ alt[Len(alt)] = "\""
    THEN [k \in 1..(Len(alt) - 2) |-> alt[k + 1]]
    ELSE alt

\* g has the transition from --on--> to
HasTransition(g, from, on, to) ==
    /\ from \in DOMAIN g.idx
    /\ to \in DOMAIN g.idx
    /\ on \in DOMAIN g.trans[g.idx[from] + 1]
    /\ g.trans[g.idx[from] + 1][on] = g.idx[to]

\* the second tokens of the two-token alternatives of the rules of lhs
BinaryTargets(text, lhs) ==
    LET ls == RuleLines(text)
    IN UNION {{SubstrFrom(alt, find(alt, <<" ">>) + 1) :
                  alt \in {x \in AltsOf(ls[k]) : find(x, <<" ">>) /= npos}} :
                 k \in {j \in 1..Len(ls) : LhsOf(ls[j]) = lhs}}

\* C24: for every rule of a nonterminal (here: a left-hand side that does
\* not start with T, a nonterminal on every reading) with an alternative
\* that is a single plain terminal a, the loaded GrammarDFA has the
\* transition LHS --unquote(a)--> Accept
C24_UnitTerminalToAccept ==
    pc = "loaded" =>
        LET ls == RuleLines(grammar)
        IN \A k \in 1..Len(ls) :
              LhsOf(ls[k])[1] /= "T" =>
                  \A a \in AltsOf(ls[k]) :
                      IsPlainTerminal(a) =>
                          HasTransition(gdfa, LhsOf(ls[k]), Unquoted(a), AcceptName)

\* what load_cnf_grammar does for such an alternative of a left-hand side
\* that does not start with T: the transition on unquote(a) exists and leads
\* to Accept or, overwritten by a two-token alternative of the same
\* left-hand side, to that alternative's nonterminal
C24_UnlessOverwritten ==
    pc = "loaded" =>
        LET ls == RuleLines(grammar)
        IN \A k \in 1..Len(ls) :
              LhsOf(ls[k])[1] /= "T" =>
                  \A a \in AltsOf(ls[k]) :
                      IsPlainTerminal(a) =>
                          \E to \in {AcceptName} \cup BinaryTargets(grammar, LhsOf(ls[k])) :
                              HasTransition(gdfa, LhsOf(ls[k]), Unquoted(a), to)

\* the transition of a unit alternative was overwritten: S -> T0 A | a with
\* T0 -> a leaves S --a--> A
C24_OverwrittenReached ==
    /\ pc = "loaded"
    /\ \E k \in 1..Len(RuleLines(grammar)) :
          /\ LhsOf(RuleLines(grammar)[k]) = <<"S">>
          /\ <<"a">> \in AltsOf(RuleLines(grammar)[k])
    /\ HasTransition(gdfa, <<"S">>, <<"a">>, <<"A">>)

\* C25: a rule line is taken for a terminal helper, and no state is made
\* for its left-hand side, exactly when the left-hand side is the letter T
\* followed by digits; any other left-hand side, also one that merely starts
\* with T, gets a state of its name
C25_HelperDetection ==
    pc = "loaded" =>
        LET ls == RuleLines(grammar)
        IN \A k \in 1..Len(ls) :
              (LhsOf(ls[k]) \notin DOMAIN gdfa.idx) <=> IsHelperName(LhsOf(ls[k]))

\* what load_cnf_grammar does: the first character alone decides; every
\* left-hand side that starts with T is taken for a terminal helper
C25_FirstLetterDecides ==
    pc = "loaded" =>
        LET ls == RuleLines(grammar)
        IN \A k \in 1..Len(ls) :
              (LhsOf(ls[k]) \notin DOMAIN gdfa.idx) <=> (LhsOf(ls[k])[1] = "T")

\* the rule TA -> a | ε was loaded and there is no state TA
C25_NameWithTReached ==
    /\ pc = "loaded"
    /\ \E k \in 1..Len(RuleLines(grammar)) :
          LhsOf(RuleLines(grammar)[k]) = <<"T", "A">>
    /\ <<"T", "A">> \notin DOMAIN gdfa.idx

\* the left-hand sides of the rules of nonterminals, in file order
NonterminalsInOrder(text) ==
    LET ls == RuleLines(text)
        nt == SelectSeq(ls, LAMBDA l : LhsOf(l)[1] /= "T")
    IN [k \in 1..Len(nt) |-> LhsOf(nt[k])]

\* C26: the start state of a loaded grammar is the state S if there is a
\* rule for S, otherwise the first nonterminal that appears as a left-hand
\* side in the file, otherwise index 0
C26_StartState ==
    pc = "loaded" =>
        LET nts == NonterminalsInOrder(grammar)
        IN IF <<"S">> \in Range(nts) THEN gdfa.names[gdfa.start + 1] = <<"S">>
           ELSE IF nts /= <<>> THEN gdfa.names[gdfa.start + 1] = nts[1]
           ELSE gdfa.start = 0

\* what load_cnf_grammar does: without a rule for S the start is index 0,
\* the nonterminal the unordered_set yields first, which is one of the
\* left-hand sides but not always the first of the file
C26_StartIsSomeNonterminal ==
    pc = "loaded" =>
        LET nts == NonterminalsInOrder(grammar)
        IN IF <<"S">> \in Range(nts) THEN gdfa.names[gdfa.start + 1] = <<"S">>
           ELSE /\ gdfa.start = 0
                /\ nts /= <<>> => gdfa.names[1] \in Range(nts)
                /\ nts = <<>> => gdfa.names[1] = AcceptName

\* a file without a rule for S was loaded and the start is not the first
\* left-hand side of the file
C26_OtherStartReached ==
    /\ pc = "loaded"
    /\ <<"S">> \notin Range(NonterminalsInOrder(grammar))
    /\ NonterminalsInOrder(grammar) /= <<>>
    /\ gdfa.names[gdfa.start + 1] /= NonterminalsInOrder(grammar)[1]

\* the rules of name have the alternative ε
HasEpsilonAlternative(text, name) ==
    LET ls == RuleLines(text)
    IN \E k \in 1..Len(ls) : LhsOf(ls[k]) = name /\ <<"ε">> \in AltsOf(ls[k])

\* C27: after load_cnf_grammar a state named Accept exists and is
\* accepting, and every other accepting state is a nonterminal with an ε
\* alternative
C27_AcceptingStates ==
    pc = "loaded" =>
        /\ AcceptName \in DOMAIN gdfa.idx
        /\ gdfa.accepting[gdfa.idx[AcceptName] + 1]
        /\ \A k \in 1..Len(gdfa.names) :
              (gdfa.accepting[k] /\ gdfa.names[k] /= AcceptName) =>
                  HasEpsilonAlternative(grammar, gdfa.names[k])

\* C27 witness: a loaded grammar with an accepting nonterminal (by its ε
\* alternative), Accept, and a nonterminal with a unit alternative that is
\* not accepting
C27_Witness ==
    /\ pc = "loaded"
    /\ \E k \in 1..Len(gdfa.names) :
          gdfa.accepting[k] /\ gdfa.names[k] /= AcceptName
    /\ \E k \in 1..Len(gdfa.names) :
          /\ ~gdfa.accepting[k]
          /\ \E on \in DOMAIN gdfa.trans[k] :
                gdfa.trans[k][on] = gdfa.idx[AcceptName]

\* the alternatives of a rule line, in the order written
AltSeqOf(l) ==
    SplitAt(SubstrFrom(l, find(l, ArrowText) + Len(ArrowText)), <<" ", "|", " ">>)

\* C28 (checked under Spec): every production to_chomsky writes is either
\* "Ti -> a_i" for an alphabet symbol or the production of a state
\* nonterminal whose alternatives are each "Ti N" with a helper and a state
\* nonterminal, a single terminal, or ε; ε is an alternative of S only; no
\* alternative occurs twice within a left-hand side, and no left-hand side
\* has two productions
C28_CnfShape ==
    pc = "exported" =>
        LET d == exported
            ls == RuleLines(grammar)
            names == Range(StateNames(0, Len(d.states_), d.start_state_, 0))
            helpers == {HelperName(i - 1) : i \in 1..Len(d.alphabet_)}
            binary == {h \o <<" ">> \o N : h \in helpers, N \in names}
        IN /\ \A j, k \in 1..Len(ls) : LhsOf(ls[j]) = LhsOf(ls[k]) => j = k
           /\ \A k \in 1..Len(ls) :
                 LET lhs == LhsOf(ls[k])
                     alts == AltSeqOf(ls[k])
                 IN /\ Cardinality(Range(alts)) = Len(alts)
                    /\ \/ \E i \in 1..Len(d.alphabet_) :
                             lhs = HelperName(i - 1) /\ alts = <<d.alphabet_[i]>>
                       \/ /\ lhs \in names
                          /\ \A a \in Range(alts) :
                                \/ a \in binary
                                \/ a \in Range(d.alphabet_)
                                \/ a = <<"ε">> /\ lhs = <<"S">>

\* C28 witness: an exported grammar whose production of S has a binary
\* alternative, a terminal alternative and ε, next to the production of
\* another accepting state
C28_Witness ==
    /\ pc = "exported"
    /\ Len(exported.states_) >= 3
    /\ \E k \in 1..Len(RuleLines(grammar)) :
          /\ LhsOf(RuleLines(grammar)[k]) = <<"S">>
          /\ <<"ε">> \in AltsOf(RuleLines(grammar)[k])
          /\ Len(AltSeqOf(RuleLines(grammar)[k])) >= 3
    /\ \E X \in 0..(Len(exported.states_) - 1) :
          X /= exported.start_state_ /\ At(exported.states_, X).accepting


-----------------------------------------------------------------------------
(* Properties of validate_pda_sequence, checked under SpecValidate *)

\* the number of pushes minus the number of pops among the first k tokens
Depth(sq, k) ==
    Cardinality({j \in 1..k : sq[j] = <<"s", "t", "a", "t", "e", "=", "S", "0">>})
        - Cardinality({j \in 1..k : sq[j] = <<"s", "t", "a", "t", "e", "=", "S", "F">>})

\* the 0-based indices at which a pop finds nothing to remove
Underflows(sq) == {k - 1 : k \in {j \in 1..Len(sq) : Depth(sq, j) < 0}}

\* C29: validate_pda_sequence counts "state=S0" as a push and "state=SF" as a
\* pop and ignores every other token.  If some pop finds the stack empty, the
\* result is ok = false with reason "pop without matching push at position i"
\* for the first such index i (0-based).  Otherwise, if pushes remain
\* unmatched at the end, the result is ok = false with reason
\* "final stack not empty (n unmatched pushes)" for their number n; otherwise
\* it is ok = true with reason "accepted".
C29_StackBalance ==
    vpc = "done" =>
        LET under == Underflows(vseq)
            left == Depth(vseq, Len(vseq))
        IN IF under /= {}
           THEN LET i == CHOOSE k \in under : \A j \in under : k <= j
                IN /\ ~presult.ok
                   /\ presult.reason = <<"p", "o", "p", " ", "w", "i", "t", "h", "o", "u", "t", " ", "m", "a", "t", "c", "h", "i", "n", "g", " ", "p", "u", "s", "h", " ", "a", "t", " ", "p", "o", "s", "i", "t", "i", "o", "n", " ">> \o to_string(i)
           ELSE IF left > 0
                THEN /\ ~presult.ok
                     /\ presult.reason = <<"f", "i", "n", "a", "l", " ", "s", "t", "a", "c", "k", " ", "n", "o", "t", " ", "e", "m", "p", "t", "y", " ", "(">> \o to_string(left) \o <<" ", "u", "n", "m", "a", "t", "c", "h", "e", "d", " ", "p", "u", "s", "h", "e", "s", ")">>
                ELSE /\ presult.ok
                     /\ presult.reason = <<"a", "c", "c", "e", "p", "t", "e", "d">>

\* a pop underflows after a matched pair and an ignored token: the position
\* reported is 3
C29_Witness ==
    /\ vpc = "done"
    /\ vseq = <<<<"s", "t", "a", "t", "e", "=", "S", "0">>, <<"s", "t", "a", "t", "e", "=", "S", "F">>, <<"s", "t", "a", "t", "e", "=", "S", "1">>, <<"s", "t", "a", "t", "e", "=", "S", "F">>>>
    /\ presult = [ok |-> FALSE, reason |-> <<"p", "o", "p", " ", "w", "i", "t", "h", "o", "u", "t", " ", "m", "a", "t", "c", "h", "i", "n", "g", " ", "p", "u", "s", "h", " ", "a", "t", " ", "p", "o", "s", "i", "t", "i", "o", "n", " ", "3">>]

\* two pushes are left unmatched at the end
C29_UnmatchedReached ==
    /\ vpc = "done"
    /\ Len(vseq) = 4
    /\ presult = [ok |-> FALSE, reason |-> <<"f", "i", "n", "a", "l", " ", "s", "t", "a", "c", "k", " ", "n", "o", "t", " ", "e", "m", "p", "t", "y", " ", "(", "2", " ", "u", "n", "m", "a", "t", "c", "h", "e", "d", " ", "p", "u", "s", "h", "e", "s", ")">>]

\* a balanced sequence with ignored tokens is accepted
C29_AcceptedReached ==
    /\ vpc = "done"
    /\ vseq = <<<<"s", "t", "a", "t", "e", "=", "S", "0">>, <<"p", "r", "o", "t", "o", "=", "t", "c", "p">>, <<"s", "t", "a", "t", "e", "=", "S", "F">>>>
    /\ presult = [ok |-> TRUE, reason |-> <<"a", "c", "c", "e", "p", "t", "e", "d">>]


-----------------------------------------------------------------------------
(* Properties of from_pta, checked under Spec *)

\* the PTAs obtained from p by moving one node id or one transition target
\* out of the bounds of the node list
OutOfBounds(p) ==
    LET n == Len(p.nodes_)
    IN {[p EXCEPT !.nodes_[k].id = n + e] : k \in 1..n, e \in 0..1}
       \cup UNION {{[p EXCEPT !.nodes_[k].transitions[s] = n + e] :
                       s \in DOMAIN p.nodes_[k].transitions, e \in 0..1} :
                   k \in 1..n}

\* every PTA node has the DFA state of its id, with its counts
NodesKeepIdAndCounts ==
    \A k \in 1..Len(pta.nodes_) :
        LET node == pta.nodes_[k]
        IN /\ node.id + 1 \in 1..Len(dfa.states_)
           /\ \A j \in 1..Len(pta.nodes_) : pta.nodes_[j].id = node.id => j = k
           /\ dfa.states_[node.id + 1].positive_count = node.positive_count
           /\ dfa.states_[node.id + 1].negative_count = node.negative_count

\* the start state is the PTA start and the alphabet is the strictly
\* increasing list of all transition labels
StartAndAlphabetFromPta ==
    /\ dfa.start_state_ = pta.start_state_
    /\ Range(dfa.alphabet_) =
           UNION {DOMAIN pta.nodes_[k].transitions : k \in 1..Len(pta.nodes_)}
    /\ \A i, j \in 1..Len(dfa.alphabet_) :
           i < j => StrLess(dfa.alphabet_[i], dfa.alphabet_[j])

\* from_pta throws on every PTA with a node id or a transition target out of
\* bounds, and on no PTA made by build
ThrowsExactlyOutOfBounds ==
    /\ pc /= "failed"
    /\ pc = "built" =>
           /\ ~from_pta_throws(pta)
           /\ \A p \in OutOfBounds(pta) : from_pta_throws(p)

\* C30 as stated: from_pta fails if a node id or a transition target is out
\* of bounds and never fails on a PTA made by build; the DFA it returns has
\* exactly one state per PTA node, with the node's id, counts and transitions,
\* the PTA's start state, and the sorted duplicate-free list of all transition
\* labels as its alphabet.
C30_StatePerNode ==
    /\ ThrowsExactlyOutOfBounds
    /\ pc = "dfa" =>
           /\ Len(dfa.states_) = Len(pta.nodes_)
           /\ NodesKeepIdAndCounts
           /\ \A k \in 1..Len(pta.nodes_) :
                  dfa.states_[pta.nodes_[k].id + 1].transitions
                      = pta.nodes_[k].transitions
           /\ StartAndAlphabetFromPta

\* C30 as the code has it: from_pta fails if a node id or a transition target
\* is out of bounds and never fails on a PTA made by build; the DFA it returns
\* has one state per PTA node, with the node's id and counts and with every
\* transition of the node, the PTA's start state, and the sorted
\* duplicate-free list of all transition labels as its alphabet.  Beyond that,
\* when some node lacks a transition on some label, the DFA has one more
\* state, the sink, and every state has the missing transitions, which lead to
\* the sink.
C30_FromPta ==
    /\ ThrowsExactlyOutOfBounds
    /\ pc = "dfa" =>
           LET n == Len(pta.nodes_)
               missing == \E k \in 1..n : \E s \in Range(dfa.alphabet_) :
                              s \notin DOMAIN pta.nodes_[k].transitions
           IN /\ Len(dfa.states_) = IF missing THEN n + 1 ELSE n
              /\ missing <=> dfa.sink_state_ = n
              /\ NodesKeepIdAndCounts
              /\ \A k \in 1..n :
                     LET node == pta.nodes_[k]
                         state == dfa.states_[node.id + 1]
                     IN /\ DOMAIN state.transitions = Range(dfa.alphabet_)
                        /\ \A s \in DOMAIN state.transitions :
                               state.transitions[s] =
                                   IF s \in DOMAIN node.transitions
                                   THEN node.transitions[s]
                                   ELSE n
              /\ StartAndAlphabetFromPta

\* from_pta has run on a PTA of two branches: three nodes, two labels, and a
\* sink as the fourth state
C30_Witness ==
    /\ pc = "dfa"
    /\ Len(pta.nodes_) = 3
    /\ Len(dfa.alphabet_) = 2
    /\ Len(dfa.states_) = 4
    /\ dfa.sink_state_ = 3

\* from_pta has run on the PTA of no samples: one node, no label, no sink
C30_RootOnlyReached ==
    /\ pc = "dfa"
    /\ Len(pta.nodes_) = 1
    /\ Len(dfa.states_) = 1
    /\ dfa.alphabet_ = <<>>


-----------------------------------------------------------------------------
(* Properties of a grammar file without rules, checked under SpecLoad *)

\* C31: a GrammarDFA loaded from a grammar file without rule lines (empty, or
\* only comments and headers) rejects every sequence, the empty one included.
C31_NoRulesRejectsAll ==
    (pc = "loaded" /\ RuleLines(grammar) = <<>>) =>
        \A w \in Words : ~classify_with_reason(gdfa, w)[1]

\* what the code does: loaded from a file without rule lines, the GrammarDFA
\* has the single state Accept, which is its start state and accepting; it
\* accepts the empty sequence and rejects every other sequence
C31_OnlyEmptyAccepted ==
    (pc = "loaded" /\ RuleLines(grammar) = <<>>) =>
        /\ gdfa.names = <<AcceptName>>
        /\ gdfa.start = 0
        /\ \A w \in Words : classify_with_reason(gdfa, w)[1] <=> w = <<>>

\* a file of a comment and a header has been loaded
C31_CommentsOnlyReached ==
    /\ pc = "loaded"
    /\ RuleLines(grammar) = <<>>
    /\ grammar /= <<>>
    /\ classify_with_reason(gdfa, <<>>) = <<TRUE, ReasonAccepted>>


-----------------------------------------------------------------------------
(* Properties of a terminal written and read back, checked under SpecQuote *)

\* C32: for every non-empty symbol s, the helper line 'T0 -> quote(s)' is read
\* back by load_cnf_grammar as the mapping T0 -> s exactly, also when s
\* contains spaces, double quotes or backslashes.
C32_TerminalRoundTrip ==
    (qpc = "read" /\ terminal /= <<>>) =>
        readTerms = MapPut(EmptyMap, <<"T", "0">>, terminal)

\* what the code does: a symbol with a space, a double quote or a backslash
\* comes back with the backslashes that quote has added still in it, and any
\* other symbol comes back without its leading and trailing blanks and tabs
C32_ReadBackAsWritten ==
    (qpc = "read" /\ terminal /= <<>>) =>
        readTerms = MapPut(EmptyMap, <<"T", "0">>,
                           IF Contains(terminal, {" ", "\"", "\\"})
                           THEN Escaped(terminal)
                           ELSE trim(terminal))

\* a symbol with a space inside comes back as it was
C32_SpaceKeptReached ==
    /\ qpc = "read"
    /\ terminal = <<"a", " ", "a">>
    /\ readTerms = MapPut(EmptyMap, <<"T", "0">>, terminal)

\* a symbol with a double quote comes back with a backslash before the quote
C32_BackslashLeftReached ==
    /\ qpc = "read"
    /\ terminal = <<"a", "\"">>
    /\ readTerms = MapPut(EmptyMap, <<"T", "0">>, <<"a", "\\", "\"">>)


-----------------------------------------------------------------------------
(* Properties of the two grammar loaders, checked under SpecLoad *)

\* C33: for every grammar text and every sequence w, the GrammarDFA built by
\* load_cnf_grammar of the standalone simulator and the one built by
\* load_cnf_grammar of the core give the same accepted verdict from
\* classify_with_reason(w).
C33_LoadersAgree ==
    pc = "both" =>
        \A w \in Words :
            classify_with_reason(sgdfa, w)[1] = classify_with_reason(gdfa, w)[1]

\* what the code does: the standalone loader never adds the state Accept and
\* makes a state for every helper; both loaders make the states of the
\* nonterminals
C33_StatesOfBoth ==
    pc = "both" =>
        LET ls == RuleLines(grammar)
            lhss == {LhsOf(ls[k]) : k \in 1..Len(ls)}
        IN /\ AcceptName \in Range(gdfa.names)
           /\ AcceptName \in Range(sgdfa.names) =>
                  AcceptName \in lhss \cup UNION {BinaryTargets(grammar, l) : l \in lhss}
           /\ lhss \subseteq Range(sgdfa.names)
           /\ {l \in lhss : l[1] /= "T"} \subseteq Range(gdfa.names)

\* both loaders have read the file "B -> a": the core accepts <a> and rejects
\* the empty sequence, the standalone simulator does the opposite
C33_OppositeReached ==
    /\ pc = "both"
    /\ grammar = <<"B", " ", "-", ">", " ", "a", "\n">>
    /\ classify_with_reason(gdfa, << <<"a">> >>)[1]
    /\ ~classify_with_reason(gdfa, <<>>)[1]
    /\ ~classify_with_reason(sgdfa, << <<"a">> >>)[1]
    /\ classify_with_reason(sgdfa, <<>>)[1]


-----------------------------------------------------------------------------
(* Properties of the search of simulate_pda, checked under SpecPDA *)

\* a configuration without its trace
Configuration(state_idx, input_idx, stack) ==
    [state_idx |-> state_idx, input_idx |-> input_idx, stack |-> stack]

\* the configurations one transition away from a configuration of C
Post(p, inp, C) ==
    UNION {{Configuration(t.next_state,
                          IF t.input_symbol = "ε" THEN c.input_idx
                          ELSE c.input_idx + 1,
                          StackAfter(t, c.stack)) :
               t \in {u \in Range(p.states[c.state_idx + 1].transitions) :
                         Enabled(u, c, inp)}} :
           c \in C}

\* the configurations that the runs of exactly k transitions end in
RECURSIVE RunsOfLength(_, _, _)
RunsOfLength(p, inp, k) ==
    IF k = 0 THEN {Configuration(p.start, 0, <<>>)}
    ELSE Post(p, inp, RunsOfLength(p, inp, k - 1))

\* some run of exactly k transitions consumes the input and ends in an
\* accepting state
AcceptsIn(p, inp, k) ==
    \E c \in RunsOfLength(p, inp, k) :
        c.input_idx = Len(inp) /\ p.states[c.state_idx + 1].accepting

\* C34: when simulate_pda returns ok, no accepting run of the PDA on the
\* input has fewer steps than the returned trace
C34_ShortestTrace ==
    (spc = "done" /\ result.ok) =>
        /\ AcceptsIn(pda, input, Len(result.steps))
        /\ \A k \in 0..(Len(result.steps) - 1) : ~AcceptsIn(pda, input, k)

\* C34 witness: an input accepted by a trace of two steps although a
\* configuration of an earlier level was expanded without accepting and the
\* PDA also has an accepting run of three steps
C34_Witness ==
    /\ spc = "done"
    /\ result.ok
    /\ Len(result.steps) = 2
    /\ dequeued >= 4
    /\ AcceptsIn(pda, input, 3)


\* C35: when simulate_pda returns ok = false because the queue became empty,
\* the PDA has no run on the input that consumes all of it and ends in an
\* accepting state (no run is longer than the number of dequeues the step cap
\* allows, and none of them accepts); so when an accepting run exists,
\* simulate_pda returns ok = true unless it stopped at the step cap, and it
\* returns ok = false with a non-empty queue only at the step cap.
C35_CompleteBelowCap ==
    /\ (spc = "done" /\ ~result.ok /\ queue = <<>>) =>
           /\ \A k \in 0..(max_steps + 1) : ~AcceptsIn(pda, input, k)
           /\ RunsOfLength(pda, input, max_steps + 1) = {}
    /\ (spc = "done" /\ \E k \in 0..(max_steps + 1) : AcceptsIn(pda, input, k)) =>
           (result.ok \/ (queue /= <<>> /\ steps_count > max_steps))
    /\ (spc = "done" /\ ~result.ok /\ queue /= <<>>) => steps_count > max_steps

\* C35 witness: the queue became empty after four configurations, input was
\* consumed on the way, and the input is rejected
C35_Witness ==
    /\ spc = "done"
    /\ ~result.ok
    /\ queue = <<>>
    /\ dequeued >= 4
    /\ Len(input) = 2
    /\ best_input_consumed >= 1

\* a run that stopped at the step cap although the PDA has an accepting run
C35_CapHidesRunReached ==
    /\ spc = "done"
    /\ ~result.ok
    /\ queue /= <<>>
    /\ \E k \in 0..(max_steps + 1) : AcceptsIn(pda, input, k)


\* the configurations enqueued so far: those still in the queue and those
\* taken from it
Enqueued == Range(queue) \cup Range(visited)

\* C36: for every configuration ever enqueued, the input index is at most
\* |input| and equals the number of trace steps that consumed input; the
\* trace is a chain (each step's next_state is the following step's
\* current_state) that starts at the PDA's start state and ends at the
\* configuration's control state, and the stack_after of its last step is the
\* configuration's stack
C36_ConfigurationInvariant ==
    \A c \in Enqueued :
        LET n == Len(c.trace)
        IN /\ c.input_idx <= Len(input)
           /\ Cardinality({k \in 1..n : c.trace[k].symbol /= "ε"}) = c.input_idx
           /\ \A k \in 1..(n - 1) :
                  c.trace[k].next_state = c.trace[k + 1].current_state
           /\ n > 0 =>
                  /\ c.trace[n].stack_after = c.stack
                  /\ c.trace[1].current_state = pda.states[pda.start + 1].name
                  /\ c.trace[n].next_state = pda.states[c.state_idx + 1].name
           /\ n = 0 => c = SimulationState(pda.start, 0, <<>>, <<>>)

\* C36 witness: a configuration in the queue after two steps, one consuming
\* input and one not, that went through the other state and has a non-empty
\* stack
C36_Witness ==
    \E k \in 1..Len(queue) :
        /\ Len(queue[k].trace) = 2
        /\ queue[k].input_idx = 1
        /\ queue[k].stack /= <<>>
        /\ queue[k].trace[1].current_state /= queue[k].trace[2].current_state


-----------------------------------------------------------------------------
(* Properties of the blocks of minimize, checked under Spec *)

\* every state of d accepts exactly when it has more positive than negative
\* samples
MajorityFlags(d) ==
    \A k \in 1..Len(d.states_) :
        d.states_[k].accepting
            = (d.states_[k].positive_count > d.states_[k].negative_count)

\* every final block of minimize on d holds states of one accepting flag, and
\* that flag is the one of the block's state in m
BlocksKeepFlag(d, m) ==
    LET parts == FinalPartition(d).partitions
    IN \A b \in 1..Len(parts) : \A k \in 1..Len(parts[b]) :
           d.states_[parts[b][k] + 1].accepting = m.states_[b].accepting

\* C37: for a DFA whose every state accepts exactly when its positive count
\* exceeds its negative count, every final block of minimize holds only
\* states of the same accepting flag, and the flag minimize computes for the
\* block from the summed counts is the flag of each of its members (checked
\* for minimize on the DFA from from_pta and again on its result)
C37_BlockConsistency ==
    /\ (pc = "min" /\ MajorityFlags(dfa)) => BlocksKeepFlag(dfa, min)
    /\ (pc = "min2" /\ MajorityFlags(min)) => BlocksKeepFlag(min, min2)

\* C37 witness: minimize has merged two accepting states into one block and
\* kept a rejecting block with a state of non-zero counts apart
C37_Witness ==
    /\ pc = "min"
    /\ MajorityFlags(dfa)
    /\ LET parts == FinalPartition(dfa).partitions
       IN /\ \E b \in 1..Len(parts) :
                 Len(parts[b]) >= 2 /\ min.states_[b].accepting
          /\ \E b \in 1..Len(parts) :
                 /\ ~min.states_[b].accepting
                 /\ min.states_[b].negative_count > 0


-----------------------------------------------------------------------------
(* Properties of the sink made by from_pta, checked under Spec *)

\* C38: the DFA made by from_pta has a sink exactly when its alphabet is not
\* empty.  Built from at least one non-empty sample, it has the sink as its
\* last state, appended after the states of the PTA nodes; built from empty
\* sequences only, or from no samples, it has one state and no sink, and
\* classify returns false for every non-empty sequence.
C38_SinkIffAlphabet ==
    pc = "dfa" =>
        LET n == Len(dfa.states_)
            hasSink == dfa.sink_state_ < n
            nonEmpty == \E k \in 1..Len(samples) : samples[k].symbols /= <<>>
        IN /\ hasSink <=> dfa.alphabet_ /= <<>>
           /\ nonEmpty =>
                  /\ hasSink
                  /\ dfa.sink_state_ = n - 1
                  /\ n = Len(pta.nodes_) + 1
           /\ ~nonEmpty =>
                  /\ n = 1
                  /\ ~hasSink
                  /\ \A w \in Words : w /= <<>> => ~classify(dfa, w)

\* C38 witness: from_pta has run on the PTA of two empty samples, one of each
\* label, and on the one-state DFA without sink the empty sequence is
\* rejected as a tie
C38_Witness ==
    /\ pc = "dfa"
    /\ Len(samples) = 2
    /\ \A k \in 1..Len(samples) : samples[k].symbols = <<>>
    /\ samples[1].label /= samples[2].label
    /\ Len(dfa.states_) = 1
    /\ ~classify(dfa, <<>>)

\* from_pta has run on the PTA of an empty and a non-empty sample: the sink
\* is the last of three states
C38_SinkLastReached ==
    /\ pc = "dfa"
    /\ \E k \in 1..Len(samples) : samples[k].symbols = <<>>
    /\ Len(dfa.states_) = 3
    /\ dfa.sink_state_ = 2


-----------------------------------------------------------------------------
(* Properties of the member functions of GrammarDFA, checked under SpecBuilder *)

\* names, trans and accepting have one entry per state; idx maps every name
\* to the one index that holds it; every transition leads to a state; start
\* is a state once there is one
WellFormed(g) ==
    /\ Len(g.trans) = Len(g.names)
    /\ Len(g.accepting) = Len(g.names)
    /\ DOMAIN g.idx = Range(g.names)
    /\ \A k \in 1..Len(g.names) : g.idx[g.names[k]] = k - 1
    /\ \A j, k \in 1..Len(g.names) : g.names[j] = g.names[k] => j = k
    /\ \A k \in 1..Len(g.trans) : \A on \in DOMAIN g.trans[k] :
           g.trans[k][on] \in 0..(Len(g.names) - 1)
    /\ g.names /= <<>> => g.start \in 0..(Len(g.names) - 1)

\* h has every state of g at the index it has in g
KeepsIndices(g, h) ==
    /\ Len(h.names) >= Len(g.names)
    /\ SubSeq(h.names, 1, Len(g.names)) = g.names
    /\ \A n \in DOMAIN g.idx : n \in DOMAIN h.idx /\ h.idx[n] = g.idx[n]

\* h has, from the state called from on the symbol on, the one transition to
\* the state called to, and otherwise the transitions of g
Replaced(g, h, from, on, to) ==
    /\ {from, to} \subseteq DOMAIN h.idx
    /\ h.trans[h.idx[from] + 1][on] = h.idx[to]
    /\ \A k \in 1..Len(h.trans) : \A x \in DOMAIN h.trans[k] :
           (k = h.idx[from] + 1 /\ x = on)
           \/ (k <= Len(g.trans) /\ x \in DOMAIN g.trans[k]
               /\ g.trans[k][x] = h.trans[k][x])
    /\ \A k \in 1..Len(g.trans) : DOMAIN g.trans[k] \subseteq DOMAIN h.trans[k]

\* C39: a default-constructed GrammarDFA is well-formed, and every call of
\* add_state_if_missing, set_start, set_accepting or add_transition leaves it
\* well-formed (names, trans and accepting of equal length, idx the inverse
\* of names, every transition target and, with a state present, start a valid
\* index) and keeps every existing state at its index; add_transition(from,
\* on, to) leaves exactly one transition for (from, on), the one to the state
\* called to, replacing any previous target, and changes no other transition
C39_BuilderInvariant ==
    /\ (pc = "calls" => WellFormed(gdfa))
    /\ [][pc = "calls" =>
             /\ WellFormed(gdfa')
             /\ KeepsIndices(gdfa, gdfa')
             /\ \A from \in BuilderNames, on \in BuilderSymbols, to \in BuilderNames :
                    gdfa' = add_transition(gdfa, from, on, to) =>
                        Replaced(gdfa, gdfa', from, on, to)
       ]_vars

\* C39 witness: three states created in the order A, B, S by calls of
\* different member functions; the start is S at index 2, B is accepting, and
\* the transition of A leads to S
C39_Witness ==
    /\ pc = "calls"
    /\ gdfa.names = << <<"A">>, <<"B">>, <<"S">> >>
    /\ gdfa.start = 2
    /\ gdfa.accepting = <<FALSE, TRUE, FALSE>>
    /\ gdfa.trans[1] = MapPut(EmptyMap, <<"a">>, 2)
    /\ gdfa.trans[3] = MapPut(EmptyMap, <<"a">>, 0)

=============================================================================
